---- MODULE Spec2Model ----
(***************************************************************************)
(* Model of the capture pipeline of indigo-web-camera.                     *)
(*                                                                         *)
(* Part 1: the frame ring buffer of useAdvancedCapture                     *)
(*         (startFrameBuffer / captureFrame / stopFrameBuffer).            *)
(* Part 2: captureMultiFrame, the night / HDR capture with its parallel    *)
(*         (WebGPU) backend and its scalar fallback.                       *)
(* Part 5: the orientation codec setJpegOrientation.                       *)
(* Part 6: the merges and captureLongExposure, pixel by pixel.             *)
(* Part 7: the capture settings of useCameraMode.                          *)
(* Part 8: the video element and the sizes of the frames drawn from it.    *)
(* Part 9: the streams of useCamera.                                       *)
(* Part 10: the tone-map pass of webgpuAccumulateHDR.                      *)
(*                                                                         *)
(* A frame is identified by the instant at which it was rasterized from    *)
(* the video element: TickFrame(k) is the frame grabbed by the k-th pushing *)
(* run of captureFrame, LiveFrame(k) is a frame read directly from the    *)
(* video element after the k-th and before the (k+1)-th such run.         *)
(***************************************************************************)
EXTENDS Integers, Sequences, FiniteSets, TLC

VARIABLES
    isCapturing,    \* isCapturingRef.current
    frameBuffer,    \* frameBufferRef.current
    pendingTicks,   \* captureFrame callbacks queued with requestAnimationFrame
    clock,          \* number of frames rasterized by captureFrame so far
    starts,         \* number of capture loops started so far
    appendLog,      \* history: frames pushed since the last effective start
    lastTick,       \* history: what the last run of captureFrame did
    cap,            \* the captureMultiFrame call in flight, or its outcome
    cachedDevice,   \* webgpuHDR.cachedDevice # null
    gpuSupported,   \* navigator.gpu is defined
    now,            \* Date.now()
    cache,          \* capabilityCache: the Map from device id to cached entry
    cacheOp,        \* history: the last direct call made on the cache
    evicted,        \* history: the keys deleted by a lookup and not set since
    status,         \* state.status
    hasStream,      \* state.stream # null
    stateDeviceId,  \* state.deviceId
    upgradeAttempted, \* upgradeAttemptedRef.current
    aspectFailures, \* aspectFailureRef.current
    flows,          \* the calls of startCamera, settled or in flight
    recalled,       \* history: what the last further call of attemptUpgrade did
    ladderRuns,     \* history: upgrades begun since cleanupStream last ran
    writers,        \* history: per device, the flow that last set its profile
    statusBy,       \* history: the flow that last set the status (0: stopCamera)
    blob,           \* the Blob at hand: its type and its bytes
    stampOp,        \* history: the last call of setJpegOrientation
    fusion,         \* history: the last call of a merge or of captureLongExposure
    captureSettings, \* useCameraMode: the captureSettings state
    video,          \* the video element: the size of its source, and its history
    streams,        \* the streams acquired by startCamera and state.stream
    tonePass        \* the call of webgpuAccumulateHDR at hand and its output texture

ringVars == <<isCapturing, frameBuffer, pendingTicks, clock, starts, appendLog, lastTick>>
capVars == <<cap, cachedDevice, gpuSupported>>
cacheVars == <<now, cache, cacheOp, evicted>>
negVars == <<status, hasStream, stateDeviceId, upgradeAttempted, aspectFailures, flows,
             recalled, ladderRuns, writers, statusBy>>
camVars == <<cacheVars, negVars>>
codecVars == <<blob, stampOp>>
utilVars == <<codecVars, fusion, captureSettings, video, streams, tonePass>>
vars == <<isCapturing, frameBuffer, pendingTicks, clock, starts, appendLog, lastTick,
          cap, cachedDevice, gpuSupported,
          now, cache, cacheOp, evicted,
          status, hasStream, stateDeviceId, upgradeAttempted, aspectFailures, flows,
          recalled, ladderRuns, writers, statusBy,
          blob, stampOp, fusion, captureSettings, video, streams, tonePass>>

(***************************************************************************)
(* Bounds of the model and constants of the program.                       *)
(***************************************************************************)
Capacity == 32
MaxAppends == 34
MaxStarts == 2
MaxCaptureAppends == 4
MaxTicks == 2
MaxPeriods == 2
MaxSessions == 2
MaxOverlap == 3
MaxStamps == 2
MaxFrames == 3
MaxSourceChanges == 2
MaxStreams == 4
MaxSide == 9

Min(a, b) == IF a < b THEN a ELSE b
Max(a, b) == IF a > b THEN a ELSE b

TickFrame(k) == [t |-> k, src |-> "tick"]
LiveFrame(k) == [t |-> k, src |-> "live"]

\* Array.prototype.slice(-n) for n >= 1: the last min(n, length) elements, in order.
SliceLast(s, n) == SubSeq(s, Max(1, Len(s) - n + 1), Len(s))

(***************************************************************************)
(* Part 1: the ring buffer.                                                *)
(***************************************************************************)

\* Faulty variants of Push: never evicting, and evicting the newest frame.
PushNoEvict(buf, f) == Append(buf, f)
PushDropNewest(buf, f) ==
    LET b == Append(buf, f) IN IF Len(b) > Capacity THEN SubSeq(b, 1, Len(b) - 1) ELSE b

\* frameBufferRef.current.push(imageData); if (length > 32) shift();
Push(buf, f) ==
    LET b == Append(buf, f) IN IF Len(b) > Capacity THEN Tail(b) ELSE b

\* Faulty variant of TickSkips: the stop flag is not looked at.
TickSkipsDimsOnly(capturing, ready) == ~ready

\* if (!isCapturingRef.current || !video.videoWidth || !video.videoHeight)
TickSkips(capturing, ready) == ~capturing \/ ~ready

\* Faulty variant of SkipReschedules: the skipping branch only returns.
SkipReturnsOnly == FALSE

\* The skipping branch calls requestAnimationFrame(captureFrame) before it returns.
SkipReschedules == TRUE

\* if (isCapturingRef.current) requestAnimationFrame(captureFrame), after the push.
AppendReschedules(capturing) == capturing

NoTick == [kind |-> "none", resched |-> FALSE]

\* One run of captureFrame. `queued` is the number of callbacks still queued when the
\* run begins; `ready` says whether the video element reports a width and a height.
CaptureFrame(queued, ready) ==
    IF TickSkips(isCapturing', ready)
    THEN /\ pendingTicks' = queued + (IF SkipReschedules THEN 1 ELSE 0)
         /\ lastTick' = [kind |-> IF ~isCapturing' THEN "skipStopped" ELSE "skipNoDims",
                         resched |-> SkipReschedules]
         /\ UNCHANGED <<frameBuffer, clock>>
         /\ appendLog' = IF starts' # starts THEN <<>> ELSE appendLog
    ELSE /\ clock' = clock + 1
         /\ frameBuffer' = Push(frameBuffer, TickFrame(clock + 1))
         /\ appendLog' = Append(IF starts' # starts THEN <<>> ELSE appendLog,
                                TickFrame(clock + 1))
         /\ pendingTicks' = queued + (IF AppendReschedules(isCapturing') THEN 1 ELSE 0)
         /\ lastTick' = [kind |-> "append", resched |-> AppendReschedules(isCapturing')]

\* startFrameBuffer(): returns early without a video element and a track, while a loop
\* is running, or without a 2d context; otherwise sets the flag and runs captureFrame.
StartFrameBuffer(limit) ==
    \E haveTrack \in BOOLEAN, haveCtx \in BOOLEAN, ready \in BOOLEAN :
        /\ ~haveTrack \/ isCapturing \/ ~haveCtx \/ (starts < MaxStarts /\ clock < limit)
        /\ IF ~haveTrack \/ isCapturing \/ ~haveCtx
           THEN UNCHANGED ringVars
           ELSE /\ isCapturing' = TRUE
                /\ starts' = starts + 1
                /\ CaptureFrame(pendingTicks, ready)
        /\ UNCHANGED <<capVars, camVars, utilVars>>

\* A queued captureFrame callback runs on a display frame.
Tick(limit) ==
    \E ready \in BOOLEAN :
        /\ pendingTicks > 0
        /\ clock < limit
        /\ UNCHANGED <<isCapturing, starts>>
        /\ CaptureFrame(pendingTicks - 1, ready)
        /\ UNCHANGED <<capVars, camVars, utilVars>>

\* stopFrameBuffer(): isCapturingRef.current = false; frameBufferRef.current = [].
StopFrameBuffer ==
    /\ isCapturing' = FALSE
    /\ frameBuffer' = <<>>
    /\ lastTick' = NoTick
    /\ UNCHANGED <<pendingTicks, clock, starts, appendLog>>
    /\ UNCHANGED <<capVars, camVars, utilVars>>

(***************************************************************************)
(* Part 2: captureMultiFrame.                                              *)
(*                                                                         *)
(* The function runs in segments separated by the awaits that really       *)
(* suspend it: the adapter/device request of getDevice, readBuffer.mapAsync *)
(* and the toBlob callback. An await of an async function that itself       *)
(* never suspends (mergeFrames, accumulateAndToneMap, a webgpuAccumulateHDR *)
(* that throws at once) resumes in a microtask, before any display frame    *)
(* or user event, and is part of the same segment.                          *)
(***************************************************************************)
Modes == {"photo", "night"}
FrameCounts == {1, 3, 8}

WebGpuTag == "webgpu-accumulate-tone-map-v1"
NoMeta == [enabled |-> FALSE, frameCount |-> 0, algorithm |-> "none"]

IdleCapture ==
    [pc |-> "idle", mode |-> "photo", frameCount |-> 1, enableHDR |-> FALSE,
     available |-> 0, atBuffer |-> <<>>, framesToUse |-> 0, usedFrameCount |-> 1,
     hdrApplied |-> FALSE, gpuFrames |-> <<>>, sliceAtGpu |-> <<>>, gpuFailed |-> FALSE,
     scalarRuns |-> 0, scalarFrames |-> <<>>, merges |-> 0, pixels |-> <<>>,
     path |-> "none", cause |-> "none", meta |-> NoMeta]

\* Array.prototype.slice(-n): the last n elements; slice(-0) is slice(0), the whole array.
SliceNeg(s, n) == IF n = 0 THEN s ELSE SliceLast(s, n)

\* Faulty variant of FramesToUse: the requested count is used unclamped.
FramesToUseRequested(frameCount, available) == frameCount

\* const framesToUse = Math.min(settings.frameCount, availableFrames);
FramesToUse(frameCount, available) == Min(frameCount, available)

\* Faulty variant of BufferIsEmpty: the single-frame fallback is never taken.
BufferIsEmptyNever(available) == FALSE

\* if (availableFrames === 0)
BufferIsEmpty(available) == available = 0

\* hdrMeta.algorithm
AlgorithmTag(hdrApplied, mode, usedFrameCount) ==
    IF hdrApplied THEN WebGpuTag
    ELSE IF mode = "night" /\ usedFrameCount > 1 THEN "average-merge"
    ELSE "single-frame"

\* ctx.drawImage(video, ...): the canvas holds the frame the video shows now.
DrawLive(c) ==
    [c EXCEPT !.pixels = <<LiveFrame(clock)>>, !.path = "live", !.pc = "encode"]

\* mergeFrames(ctx, frames, w, h): returns without drawing for an empty slice,
\* otherwise the canvas holds the average of the slice.
MergeFrames(c, frames) ==
    IF Len(frames) = 0
    THEN [c EXCEPT !.merges = @ + 1, !.pc = "encode"]
    ELSE [c EXCEPT !.merges = @ + 1, !.pixels = frames, !.path = "average", !.pc = "encode"]

\* accumulateAndToneMap(frames, w, h, {maxFrames}): the number of frames it sums.
ScalarCount(frames, maxFrames) ==
    IF maxFrames > 0 THEN Min(Len(frames), maxFrames) ELSE Len(frames)

\* The catch block: slice the buffer as it is now, run the scalar backend, put its
\* result on the canvas. With nothing to sum the backend returns frames[0], which is
\* undefined, and putImageData throws out of the catch block.
ScalarFallback(c, buf) ==
    LET frames == SliceNeg(buf, c.framesToUse)
        count == ScalarCount(frames, c.framesToUse)
        d == [c EXCEPT !.scalarRuns = @ + 1, !.scalarFrames = SubSeq(frames, 1, count)]
    IN  IF count = 0
        THEN [d EXCEPT !.pc = "failed", !.cause = "scalar"]
        ELSE [d EXCEPT !.pixels = SubSeq(frames, 1, count), !.path = "scalar",
                       !.hdrApplied = TRUE, !.pc = "encode"]

\* Faulty variant of OnGpuFailure: the failure of the parallel backend is propagated.
OnGpuFailurePropagate(c, buf) == [c EXCEPT !.pc = "failed", !.cause = "gpu"]

\* try { await webgpuAccumulateHDR(...) } catch { ... accumulateAndToneMap ... }
OnGpuFailure(c, buf) == ScalarFallback(c, buf)

\* const frameCount = Math.min(frames, opts?.maxFrames ?? MAX_FRAMES);
GpuFrameCount(frames, maxFrames) == Min(frames, maxFrames)

\* The accumulation loop of webgpuAccumulateHDR: frameCount times
\* copyExternalImageToTexture({source: video}), with no suspension in between.
\* sliceAtGpu records what slice(-framesToUse) of the buffer holds at that instant.
GpuAccumulate(c, buf) ==
    [c EXCEPT !.gpuFrames = [i \in 1..GpuFrameCount(c.framesToUse, c.framesToUse)
                                |-> LiveFrame(clock)],
              !.sliceAtGpu = SliceNeg(buf, c.framesToUse),
              !.pc = "gpuReadback"]

\* The first segment of captureMultiFrame, up to its first real suspension.
CaptureStart ==
    \E mode \in Modes, frameCount \in FrameCounts, hdr \in BOOLEAN,
       haveTrack \in BOOLEAN, videoReady \in BOOLEAN :
        LET c0 == [IdleCapture EXCEPT !.mode = mode, !.frameCount = frameCount,
                                      !.enableHDR = hdr, !.atBuffer = frameBuffer]
            available == Len(frameBuffer)
            n == FramesToUse(frameCount, available)
            c1 == [c0 EXCEPT !.available = available, !.framesToUse = n,
                             !.usedFrameCount = n]
            failed(c) == [c EXCEPT !.gpuFailed = TRUE]
        IN  /\ cap.pc \in {"idle", "done", "failed"}
            /\ cap' =
                 IF ~haveTrack
                 THEN [c0 EXCEPT !.pc = "failed", !.cause = "not-ready"]
                 ELSE IF mode # "night" THEN DrawLive(c0)
                 ELSE IF BufferIsEmpty(available)
                      THEN DrawLive(c0)
                 ELSE IF ~hdr THEN MergeFrames(c1, SliceNeg(frameBuffer, n))
                 ELSE IF ~gpuSupported \/ ~videoReady
                      THEN OnGpuFailure(failed(c1), frameBuffer)
                 ELSE IF cachedDevice THEN GpuAccumulate(c1, frameBuffer)
                 ELSE [c1 EXCEPT !.pc = "gpuDevice"]
            /\ UNCHANGED <<cachedDevice, gpuSupported>>
            /\ UNCHANGED <<ringVars, camVars, utilVars>>

\* getDevice() settles: the adapter and the device were obtained, or not.
GpuDevice ==
    \E ok \in BOOLEAN :
        /\ cap.pc = "gpuDevice"
        /\ IF ok
           THEN /\ cachedDevice' = TRUE
                /\ cap' = GpuAccumulate(cap, frameBuffer)
           ELSE /\ cap' = OnGpuFailure([cap EXCEPT !.gpuFailed = TRUE], frameBuffer)
                /\ UNCHANGED cachedDevice
        /\ UNCHANGED gpuSupported
        /\ UNCHANGED <<ringVars, camVars, utilVars>>

\* readBuffer.mapAsync settles: the tone-mapped image is read back and put on the
\* canvas, or the submission failed.
GpuReadback ==
    \E ok \in BOOLEAN :
        /\ cap.pc = "gpuReadback"
        /\ cap' = IF ok
                  THEN [cap EXCEPT !.pixels = cap.gpuFrames, !.path = "webgpu",
                                   !.hdrApplied = TRUE, !.pc = "encode"]
                  ELSE OnGpuFailure([cap EXCEPT !.gpuFailed = TRUE], frameBuffer)
        /\ UNCHANGED <<cachedDevice, gpuSupported>>
        /\ UNCHANGED <<ringVars, camVars, utilVars>>

\* The toBlob callback: a null blob rejects, otherwise hdrMeta is attached.
Encode ==
    \E ok \in BOOLEAN :
        /\ cap.pc = "encode"
        /\ cap' = IF ok
                  THEN [cap EXCEPT !.pc = "done",
                                   !.meta = [enabled |-> cap.hdrApplied,
                                             frameCount |-> cap.usedFrameCount,
                                             algorithm |-> AlgorithmTag(cap.hdrApplied,
                                                 cap.mode, cap.usedFrameCount)]]
                  ELSE [cap EXCEPT !.pc = "failed", !.cause = "encode"]
        /\ UNCHANGED <<cachedDevice, gpuSupported>>
        /\ UNCHANGED <<ringVars, camVars, utilVars>>

(***************************************************************************)
(* Part 3: the capability cache (utils/capabilityCache).                   *)
(*                                                                         *)
(* Times are milliseconds as returned by Date.now().  A width / height     *)
(* ratio is kept exact, as the pair [n, d] standing for n / d; NoAspect    *)
(* stands for an undefined ratio.  Both callers of setCachedProfile pass   *)
(* lastApplied and capabilities and no timestamp, so that the merge with   *)
(* the existing entry replaces every field.                                *)
(***************************************************************************)
MaxAgeMs == 10 * 60 * 1000
FastStartWidth == 1920
FastStartHeight == 1080
FastStartFrameRate == 30
FastStartMaxFrameRate == 60

Devices == {"camA", "camB"}
NoDevice == "none"
NoEntry == [kind |-> "none"]
NoAspect == [n |-> 0, d |-> 1]
NoCaps == [has |-> FALSE, maxW |-> 0, maxH |-> 0]

Ratio(w, h) == [n |-> w, d |-> h]

\* Faulty variant of IsStale: an entry exactly maxAge old is already stale.
IsStaleAtBoundary(entry, at, maxAge) == at - entry.timestamp >= maxAge

IsStale(entry, at, maxAge) == at - entry.timestamp > maxAge

\* The entry returned (NoEntry for undefined) and the cache left behind.
GetCachedProfile(c, deviceId, at, maxAgeMs) ==
    LET entry == c[deviceId] IN
    IF entry = NoEntry
    THEN [entry |-> NoEntry, cache |-> c]
    ELSE IF IsStale(entry, at, maxAgeMs)
         THEN [entry |-> NoEntry, cache |-> [c EXCEPT ![deviceId] = NoEntry]]
         ELSE [entry |-> entry, cache |-> c]

SetCachedProfile(c, deviceId, data, at) ==
    [c EXCEPT ![deviceId] = [kind |-> "entry",
                             lastApplied |-> data.lastApplied,
                             capabilities |-> data.capabilities,
                             timestamp |-> at]]

\* Faulty variant of ClearStaleCaches: the sweep empties the cache.
ClearStaleCachesAll(c, at, maxAgeMs) == [k \in Devices |-> NoEntry]

ClearStaleCaches(c, at, maxAgeMs) ==
    [k \in Devices |->
        IF c[k] # NoEntry /\ IsStale(c[k], at, maxAgeMs) THEN NoEntry ELSE c[k]]

FastStartConstraints(deviceId) ==
    [deviceId |-> deviceId,
     width |-> FastStartWidth,
     height |-> FastStartHeight,
     aspectRatio |-> Ratio(16, 9),
     frameRate |-> FastStartFrameRate,
     frameRateMax |-> FastStartMaxFrameRate]

\* Faulty variant of CachedConstraints: a cached profile is ignored.
CachedConstraintsIgnored(deviceId, cached) == FastStartConstraints(deviceId)

\* The constraints built from the entry that getCachedProfile returned.
\* frameRateMax = 0 stands for a frame rate constraint without a max.
CachedConstraints(deviceId, cached) ==
    IF cached # NoEntry
    THEN [deviceId |-> deviceId,
          width |-> cached.lastApplied.width,
          height |-> cached.lastApplied.height,
          aspectRatio |-> cached.lastApplied.aspectRatio,
          frameRate |-> IF cached.lastApplied.frameRate = 0
                        THEN FastStartFrameRate
                        ELSE cached.lastApplied.frameRate,
          frameRateMax |-> 0]
    ELSE FastStartConstraints(deviceId)

\* The constraints built and the cache left behind by the lookup.
BuildInitialConstraints(c, deviceId, at) ==
    LET got == IF deviceId # NoDevice
               THEN GetCachedProfile(c, deviceId, at, MaxAgeMs)
               ELSE [entry |-> NoEntry, cache |-> c]
    IN [constraints |-> CachedConstraints(deviceId, got.entry), cache |-> got.cache]

\* The profiles written by the direct calls made under SpecCache: a full one, and
\* one as the upgrade writes it when the aspect ratio is not kept, from a track
\* whose settings report no frame rate (frameRate = 0 stands for undefined).
Profiles ==
    { [width |-> 1280, height |-> 720, aspectRatio |-> Ratio(1280, 720), frameRate |-> 24],
      [width |-> 3840, height |-> 2160, aspectRatio |-> NoAspect, frameRate |-> 0] }

MaxAges == {0, 1, MaxAgeMs}
TimeSteps == {1, MaxAgeMs}

NoCacheOp ==
    [op |-> "none", key |-> NoDevice, maxAge |-> 0, at |-> 0, before |-> NoEntry,
     entry |-> NoEntry, constraints |-> FastStartConstraints(NoDevice)]

\* Date.now() moves on.
AdvanceTime(d) ==
    /\ IF d = 1 THEN now % MaxAgeMs < MaxTicks ELSE now \div MaxAgeMs < MaxPeriods
    /\ now' = now + d
    /\ UNCHANGED <<cache, cacheOp, evicted>>
    /\ UNCHANGED <<ringVars, capVars, negVars, utilVars>>

SetCall(k, p) ==
    /\ cache' = SetCachedProfile(cache, k, [lastApplied |-> p, capabilities |-> NoCaps], now)
    /\ cacheOp' = [NoCacheOp EXCEPT !.op = "set", !.key = k, !.at = now, !.before = cache[k]]
    /\ evicted' = evicted \ {k}
    /\ UNCHANGED now
    /\ UNCHANGED <<ringVars, capVars, negVars, utilVars>>

GetCall(k, maxAge) ==
    LET got == GetCachedProfile(cache, k, now, maxAge) IN
    /\ cache' = got.cache
    /\ cacheOp' = [NoCacheOp EXCEPT !.op = "get", !.key = k, !.maxAge = maxAge, !.at = now,
                                    !.before = cache[k], !.entry = got.entry]
    /\ evicted' = IF cache[k] # NoEntry /\ got.cache[k] = NoEntry
                  THEN evicted \cup {k} ELSE evicted
    /\ UNCHANGED now
    /\ UNCHANGED <<ringVars, capVars, negVars, utilVars>>

\* before holds the whole cache here, the sweep being over every key.
ClearCall(maxAge) ==
    /\ cache' = ClearStaleCaches(cache, now, maxAge)
    /\ cacheOp' = [NoCacheOp EXCEPT !.op = "clear", !.maxAge = maxAge, !.at = now,
                                    !.before = cache]
    /\ UNCHANGED <<now, evicted>>
    /\ UNCHANGED <<ringVars, capVars, negVars, utilVars>>

BuildCall(deviceId) ==
    LET built == BuildInitialConstraints(cache, deviceId, now) IN
    /\ cache' = built.cache
    /\ cacheOp' = [NoCacheOp EXCEPT !.op = "build", !.key = deviceId, !.maxAge = MaxAgeMs,
                                    !.at = now,
                                    !.before = IF deviceId = NoDevice THEN NoEntry
                                               ELSE cache[deviceId],
                                    !.constraints = built.constraints]
    /\ evicted' = IF deviceId # NoDevice /\ cache[deviceId] # NoEntry
                     /\ built.cache[deviceId] = NoEntry
                  THEN evicted \cup {deviceId} ELSE evicted
    /\ UNCHANGED now
    /\ UNCHANGED <<ringVars, capVars, negVars, utilVars>>

InitCache ==
    /\ now = 0
    /\ cache = [k \in Devices |-> NoEntry]
    /\ cacheOp = NoCacheOp
    /\ evicted = {}

(***************************************************************************)
(* Part 4: the device negotiator of useCamera (startCamera, attemptUpgrade, *)
(*         cleanupStream).                                                 *)
(*                                                                         *)
(* Every call of startCamera is a flow of its own: flows[p] is the p-th    *)
(* call, which may still be waiting for the device while a later call or   *)
(* stopCamera runs.  A track always reports numeric width, height and a    *)
(* device id; a capability maximum of 0 stands for an undefined one.       *)
(***************************************************************************)
ResolutionLadder == <<4096, 3840, 2560, 1920, 1280>>
MaxConsecAspectFailure == 2
NearMaxTolerance == 16

Abs(x) == IF x < 0 THEN -x ELSE x

\* Math.round(a / b) for a >= 0 and b > 0.
RoundDiv(a, b) == (2 * a + b) \div (2 * b)

NoTrack == [deviceId |-> NoDevice, width |-> 0, height |-> 0, frameRate |-> 0]

\* Faulty variant of NearMax: a difference of exactly 16 pixels is not near.
NearMaxStrict(track, caps) ==
    /\ caps.maxW # 0
    /\ caps.maxH # 0
    /\ Abs(caps.maxW - track.width) < NearMaxTolerance
    /\ Abs(caps.maxH - track.height) < NearMaxTolerance

NearMax(track, caps) ==
    /\ caps.maxW # 0
    /\ caps.maxH # 0
    /\ Abs(caps.maxW - track.width) <= NearMaxTolerance
    /\ Abs(caps.maxH - track.height) <= NearMaxTolerance

BaseAspect(track) == Ratio(track.width, track.height)

\* Faulty variant of KeepAspect: the failure counter is not consulted.
KeepAspectAlways(baseAspect, failures) == baseAspect # NoAspect

KeepAspect(baseAspect, failures) ==
    baseAspect # NoAspect /\ failures < MaxConsecAspectFailure

ClampToCapabilities(width, height, caps, keepAspect, baseAspect) ==
    LET overW == caps.maxW # 0 /\ width > caps.maxW
        w1 == IF overW THEN caps.maxW ELSE width
        h1 == IF overW /\ keepAspect
              THEN RoundDiv(w1 * baseAspect.d, baseAspect.n) ELSE height
        overH == caps.maxH # 0 /\ h1 > caps.maxH
        h2 == IF overH THEN caps.maxH ELSE h1
        w2 == IF overH /\ keepAspect
              THEN RoundDiv(h2 * baseAspect.n, baseAspect.d) ELSE w1
    IN [width |-> w2, height |-> h2]

TargetInitial(track, caps, keepAspect, baseAspect) ==
    ClampToCapabilities(IF caps.maxW # 0 THEN caps.maxW ELSE track.width,
                        IF caps.maxH # 0 THEN caps.maxH ELSE track.height,
                        caps, keepAspect, baseAspect)

\* A strategy: height 0, aspectRatio NoAspect and frameRateMax 0 stand for a
\* constraint that is not part of the request.
Strategy(label, w, h, aspect, fr, frMax, affects) ==
    [label |-> label, width |-> w, height |-> h, aspectRatio |-> aspect,
     frameRate |-> fr, frameRateMax |-> frMax, affectsAspect |-> affects]

\* Faulty variant of LadderWidths: the width already tried is tried again.
LadderWidthsAll(caps, target) ==
    LET Kept(w) == caps.maxW = 0 \/ w <= caps.maxW
    IN SelectSeq(ResolutionLadder, Kept)

LadderWidths(caps, target) ==
    LET Kept(w) == (caps.maxW = 0 \/ w <= caps.maxW) /\ w # target.width
    IN SelectSeq(ResolutionLadder, Kept)

\* The strategies of one upgrade, in the order in which they are tried.
Strategies(track, caps, failures) ==
    LET baseAspect == BaseAspect(track)
        keepAspect == KeepAspect(baseAspect, failures)
        target == TargetInitial(track, caps, keepAspect, baseAspect)
        widths == LadderWidths(caps, target)
    IN (IF keepAspect /\ target.width # 0 /\ target.height # 0
        THEN << Strategy("max-with-aspect", target.width, target.height, baseAspect,
                         FastStartFrameRate, FastStartMaxFrameRate, TRUE) >>
        ELSE << >>)
       \o << Strategy("max-no-aspect", target.width, target.height, NoAspect,
                      FastStartFrameRate, FastStartMaxFrameRate, FALSE),
             Strategy("max-no-aspect-fr-24", target.width, target.height, NoAspect,
                      24, 24, FALSE),
             Strategy("max-no-aspect-fr-15", target.width, target.height, NoAspect,
                      15, 15, FALSE) >>
       \o [i \in 1..Len(widths) |->
              Strategy("ladder", widths[i],
                       RoundDiv(widths[i] * baseAspect.d, baseAspect.n),
                       NoAspect, FastStartFrameRate, 0, FALSE)]

\* The two cameras.  camA, the default camera (the one a request without device
\* id is served by), has a 4:3 sensor and reports no frame rate in its settings
\* (frameRate = 0); camB is a 1080p camera whose getCapabilities is missing or
\* throws (NoCaps), or reports maxima 16 or 17 pixels above its fast-start mode.
DefaultDevice == "camA"

DeviceSettings(deviceId) ==
    IF deviceId = DefaultDevice
    THEN [width |-> 1280, height |-> 960, frameRate |-> 0]
    ELSE [width |-> 1920, height |-> 1080, frameRate |-> 30]

DeviceCaps(deviceId) ==
    IF deviceId = DefaultDevice
    THEN { [has |-> TRUE, maxW |-> 4608, maxH |-> 3456] }
    ELSE { NoCaps,
           [has |-> TRUE, maxW |-> 1936, maxH |-> 1096],
           [has |-> TRUE, maxW |-> 1937, maxH |-> 1096] }

IdleFlow ==
    [pc |-> "idle", sawStream |-> FALSE,
     constraints |-> FastStartConstraints(NoDevice),
     track |-> NoTrack, caps |-> NoCaps,
     keepAspect |-> FALSE, baseAspect |-> NoAspect,
     strategies |-> << >>, idx |-> 0, calls |-> << >>,
     applied |-> FALSE, error |-> FALSE, initialEntry |-> NoEntry]

\* Who set the profile of a device last, when, and the settings its track had.
NoWriter == [flow |-> 0, by |-> "none", width |-> 0, height |-> 0, at |-> 0]

Writer(p, by, track, at) ==
    [flow |-> p, by |-> by, width |-> track.width, height |-> track.height, at |-> at]

\* cleanupStream as run with the stream sawStream of the render it was created in.
CleanupStream(sawStream) ==
    /\ status' = IF sawStream THEN "Stopped" ELSE status
    /\ upgradeAttempted' = FALSE
    /\ aspectFailures' = 0
    /\ ladderRuns' = 0

\* Faulty variant of AlreadyAttempted: the upgrade forgets that it ran.
AlreadyAttemptedNever(attempted) == FALSE

\* Line 136: the guard at the head of attemptUpgrade.
AlreadyAttempted(attempted) == attempted

\* The synchronous head of attemptUpgrade on the track of flow f, up to its first
\* applyConstraints call; pc = "done" when it returns without a call.
UpgradeHead(f, failures) ==
    IF ~f.caps.has \/ NearMax(f.track, f.caps)
    THEN [f EXCEPT !.pc = "returned"]
    ELSE [f EXCEPT !.pc = "upgrade",
                   !.baseAspect = BaseAspect(f.track),
                   !.keepAspect = KeepAspect(BaseAspect(f.track), failures),
                   !.strategies = Strategies(f.track, f.caps, failures),
                   !.idx = 1,
                   !.calls = << [i |-> 1, outcome |-> "pending"] >>]

\* The settings of the track after the device accepted strat: the requested ones,
\* or (the request being satisfied by the nearest mode) the ones it had.
SettingsAfter(track, strat, got) ==
    IF got = "requested"
    THEN [track EXCEPT !.width = strat.width,
                       !.height = IF strat.height = 0 THEN track.height ELSE strat.height,
                       !.frameRate = strat.frameRate]
    ELSE track

\* Faulty variant of UpgradedProfile: the cache keeps the requested dimensions.
UpgradedProfileRequested(f, s, strat) ==
    [width |-> strat.width, height |-> strat.height,
     aspectRatio |-> IF f.keepAspect THEN f.baseAspect ELSE NoAspect,
     frameRate |-> strat.frameRate]

\* lastApplied as written after an accepted strategy, s being the new settings.
UpgradedProfile(f, s, strat) ==
    [width |-> IF s.width # 0 THEN s.width ELSE strat.width,
     height |-> IF s.height # 0 THEN s.height ELSE strat.height,
     aspectRatio |-> IF f.keepAspect THEN f.baseAspect ELSE NoAspect,
     frameRate |-> IF s.frameRate # 0 THEN s.frameRate ELSE strat.frameRate]

\* Faulty variant of RejectedStatus: a rejected upgrade fails the camera.
RejectedStatusFailed(current) == "Failed"

\* The status after the last strategy was rejected: nothing is reported.
RejectedStatus(current) == current

\* Faulty variant of AfterAccepted: the loop goes on after an accepted request.
AfterAcceptedContinue(f) ==
    IF f.idx < Len(f.strategies)
    THEN [f EXCEPT !.idx = f.idx + 1,
                   !.calls = Append(@, [i |-> f.idx + 1, outcome |-> "pending"])]
    ELSE [f EXCEPT !.pc = "returned"]

\* Line 291: break.
AfterAccepted(f) == [f EXCEPT !.pc = "returned"]

\* Faulty variant of AfterRejected: a rejected strategy is tried once more.
AfterRejectedRetry(f) ==
    IF Len(f.calls) < 2 * Len(f.strategies)
    THEN [f EXCEPT !.calls = Append(@, [i |-> f.idx, outcome |-> "pending"])]
    ELSE [f EXCEPT !.pc = "returned"]

\* Lines 264, 297: the loop moves to the next strategy, or ends.
AfterRejected(f) ==
    IF f.idx < Len(f.strategies)
    THEN [f EXCEPT !.idx = f.idx + 1,
                   !.calls = Append(@, [i |-> f.idx + 1, outcome |-> "pending"])]
    ELSE [f EXCEPT !.pc = "returned"]

\* Lines 294-296.
CountAspectFailure(failures, strat) ==
    IF strat.affectsAspect THEN failures + 1 ELSE failures

SetFlow(p, f) == flows' = [flows EXCEPT ![p] = f]

InFlight == Cardinality({p \in 1..Len(flows) : flows[p].pc # "done"})

\* startCamera up to its first await (getUserMedia), called while fewer than
\* overlap earlier calls are still in flight.
StartCamera(sessions, overlap, preferMax, customDeviceId) ==
    LET p == Len(flows) + 1
        deviceId == IF customDeviceId # NoDevice THEN customDeviceId ELSE stateDeviceId
        built == BuildInitialConstraints(ClearStaleCaches(cache, now, MaxAgeMs),
                                         deviceId, now)
        wanted == IF preferMax
                  THEN [built.constraints EXCEPT !.width = 4096, !.height = 2160]
                  ELSE built.constraints
    IN /\ Len(flows) < sessions
       /\ InFlight < overlap
       /\ status' = "Starting"
       /\ statusBy' = p
       /\ cache' = built.cache
       /\ flows' = Append(flows, [IdleFlow EXCEPT !.pc = "acquire",
                                                  !.sawStream = hasStream,
                                                  !.constraints = wanted])
       /\ UNCHANGED <<hasStream, stateDeviceId, upgradeAttempted, aspectFailures,
                      recalled, ladderRuns, writers>>
       /\ UNCHANGED <<now, cacheOp, evicted>>
       /\ UNCHANGED <<ringVars, capVars, utilVars>>

\* getUserMedia settles: on success cleanupStream runs and the track is recorded;
\* on failure the call ends with status Failed.
Acquired(p, ok, caps) ==
    LET f == flows[p]
        deviceId == IF f.constraints.deviceId # NoDevice
                    THEN f.constraints.deviceId ELSE DefaultDevice
        settings == DeviceSettings(deviceId)
    IN /\ f.pc = "acquire"
       /\ caps \in DeviceCaps(deviceId)
       /\ IF ok
          THEN /\ CleanupStream(f.sawStream)
               /\ statusBy' = IF f.sawStream THEN p ELSE statusBy
               /\ hasStream' = TRUE
               /\ SetFlow(p, [f EXCEPT !.pc = "play",
                                       !.constraints = IdleFlow.constraints,
                                       !.track = [deviceId |-> deviceId,
                                                  width |-> settings.width,
                                                  height |-> settings.height,
                                                  frameRate |-> settings.frameRate],
                                       !.caps = caps])
          ELSE /\ status' = "Failed"
               /\ statusBy' = p
               /\ SetFlow(p, [IdleFlow EXCEPT !.pc = "done", !.error = TRUE])
               /\ UNCHANGED <<hasStream, upgradeAttempted, aspectFailures, ladderRuns>>
       /\ UNCHANGED <<stateDeviceId, recalled, writers>>
       /\ UNCHANGED <<now, cache, cacheOp, evicted>>
       /\ UNCHANGED <<ringVars, capVars, utilVars>>

\* The video plays and its metadata is loaded: status Ready, and the settings of
\* the track are cached as the profile of its device.
MetadataReady(p) ==
    LET f == flows[p]
        t == f.track
        data == [lastApplied |-> [width |-> t.width, height |-> t.height,
                                  aspectRatio |-> Ratio(t.width, t.height),
                                  frameRate |-> t.frameRate],
                 capabilities |-> f.caps]
        written == SetCachedProfile(cache, t.deviceId, data, now)
    IN /\ f.pc = "play"
       /\ status' = "Ready"
       /\ statusBy' = p
       /\ stateDeviceId' = t.deviceId
       /\ cache' = written
       /\ writers' = [writers EXCEPT ![t.deviceId] = Writer(p, "initial", t, now)]
       /\ SetFlow(p, [f EXCEPT !.pc = "list", !.initialEntry = written[t.deviceId]])
       /\ UNCHANGED <<hasStream, upgradeAttempted, aspectFailures, recalled, ladderRuns>>
       /\ UNCHANGED <<now, cacheOp, evicted>>
       /\ UNCHANGED <<ringVars, capVars, utilVars>>

\* listDevices settles; the upgrade is started unless one was already attempted.
Listed(p) ==
    LET f == flows[p] IN
    /\ f.pc = "list"
    /\ IF upgradeAttempted \/ AlreadyAttempted(upgradeAttempted)
       THEN /\ SetFlow(p, [IdleFlow EXCEPT !.pc = "done"])
            /\ UNCHANGED <<upgradeAttempted, ladderRuns>>
       ELSE /\ upgradeAttempted' = TRUE
            /\ ladderRuns' = ladderRuns + 1
            /\ SetFlow(p, UpgradeHead(f, aspectFailures))
    /\ UNCHANGED <<status, statusBy, hasStream, stateDeviceId, aspectFailures, recalled,
                   writers>>
    /\ UNCHANGED <<now, cache, cacheOp, evicted>>
    /\ UNCHANGED <<ringVars, capVars, utilVars>>

\* attemptUpgrade is called once more on the track of flow p, in a session
\* whose upgrade was begun.
RecallUpgrade(p) ==
    LET f == flows[p] IN
    /\ f.pc \in {"upgrade", "returned"}
    /\ upgradeAttempted
    /\ IF AlreadyAttempted(upgradeAttempted)
       THEN /\ recalled' = "skipped"
            /\ UNCHANGED <<upgradeAttempted, ladderRuns, flows>>
       ELSE /\ recalled' = "ran"
            /\ upgradeAttempted' = TRUE
            /\ ladderRuns' = ladderRuns + 1
            /\ SetFlow(p, UpgradeHead(f, aspectFailures))
    /\ UNCHANGED <<status, statusBy, hasStream, stateDeviceId, aspectFailures, writers>>
    /\ UNCHANGED <<now, cache, cacheOp, evicted>>
    /\ UNCHANGED <<ringVars, capVars, utilVars>>

\* The device answers the applyConstraints call in flight of flow p.
ApplyAnswered(p, ok, got) ==
    LET f == flows[p]
        strat == f.strategies[f.calls[Len(f.calls)].i]
        s == SettingsAfter(f.track, strat, got)
        answered(o) == [f EXCEPT !.calls[Len(f.calls)].outcome = o]
    IN /\ f.pc = "upgrade"
       /\ IF ok
          THEN /\ cache' = SetCachedProfile(cache, s.deviceId,
                               [lastApplied |-> UpgradedProfile(f, s, strat),
                                capabilities |-> f.caps], now)
               /\ writers' = [writers EXCEPT ![s.deviceId] = Writer(p, "upgrade", s, now)]
               /\ SetFlow(p, AfterAccepted([answered("accepted") EXCEPT
                                               !.track = s, !.applied = TRUE]))
               /\ UNCHANGED <<status, aspectFailures>>
          ELSE /\ aspectFailures' = CountAspectFailure(aspectFailures, strat)
               /\ SetFlow(p, AfterRejected(answered("rejected")))
               /\ status' = IF AfterRejected(answered("rejected")).pc = "returned"
                            THEN RejectedStatus(status) ELSE status
               /\ UNCHANGED <<cache, writers>>
       /\ UNCHANGED <<statusBy, hasStream, stateDeviceId, upgradeAttempted, recalled,
                      ladderRuns>>
       /\ UNCHANGED <<now, cacheOp, evicted>>
       /\ UNCHANGED <<ringVars, capVars, utilVars>>

\* attemptUpgrade has returned and its caller resumes: the strategies and the
\* outcome of the upgrade, local to the call, are gone.
UpgradeReturned(p) ==
    LET f == flows[p] IN
    /\ f.pc = "returned"
    /\ SetFlow(p, [IdleFlow EXCEPT !.pc = "done"])
    /\ UNCHANGED <<status, statusBy, hasStream, stateDeviceId, upgradeAttempted,
                   aspectFailures, recalled, ladderRuns, writers>>
    /\ UNCHANGED <<now, cache, cacheOp, evicted>>
    /\ UNCHANGED <<ringVars, capVars, utilVars>>

\* stopCamera: cleanupStream of the current render.
StopCamera ==
    /\ CleanupStream(hasStream)
    /\ statusBy' = IF hasStream THEN 0 ELSE statusBy
    /\ hasStream' = FALSE
    /\ UNCHANGED <<stateDeviceId, flows, recalled, writers>>
    /\ UNCHANGED <<now, cache, cacheOp, evicted>>
    /\ UNCHANGED <<ringVars, capVars, utilVars>>

\* The tracks and capabilities attemptUpgrade is called on directly.  A maximum
\* of 0 stands for one the device does not report.
UpgradeTracks ==
    {[deviceId |-> DefaultDevice, width |-> w, height |-> h, frameRate |-> 30] :
        w \in {1280, 1920}, h \in {720, 960, 1088}}

UpgradeCaps ==
    {[has |-> TRUE, maxW |-> w, maxH |-> h] :
        w \in {0, 1000, 1920, 3840, 4096, 4608}, h \in {0, 1080, 2160, 3456}}

\* attemptUpgrade(track) called on a track, the counter of aspect failures
\* being as earlier upgrades of the session left it: the guard, then the head.
AttemptUpgrade(track, caps, failures) ==
    /\ flows = << >>
    /\ ~upgradeAttempted
    /\ upgradeAttempted' = TRUE
    /\ aspectFailures' = failures
    /\ ladderRuns' = ladderRuns + 1
    /\ flows' = << UpgradeHead([IdleFlow EXCEPT !.track = track, !.caps = caps],
                               failures) >>
    /\ UNCHANGED <<status, statusBy, hasStream, stateDeviceId, recalled, writers>>
    /\ UNCHANGED <<now, cache, cacheOp, evicted>>
    /\ UNCHANGED <<ringVars, capVars, utilVars>>

InitCamera ==
    /\ status = "Idle"
    /\ statusBy = 0
    /\ hasStream = FALSE
    /\ stateDeviceId = NoDevice
    /\ upgradeAttempted = FALSE
    /\ aspectFailures = 0
    /\ flows = << >>
    /\ recalled = "never"
    /\ ladderRuns = 0
    /\ writers = [k \in Devices |-> NoWriter]

(***************************************************************************)
(* Part 5: the orientation codec (utils/exif).                             *)
(*                                                                         *)
(* A byte array is a sequence of numbers 0..255, addressed from offset 0   *)
(* as in the source.  Reading a typed array outside its bounds gives       *)
(* undefined (here -1), which differs from every byte and counts as 0      *)
(* under the bitwise operators; writing outside its bounds does nothing.   *)
(* The bytes of one multi-byte read never overlap, so that OR-ing the      *)
(* shifted bytes is adding them.                                           *)
(***************************************************************************)
At(bytes, o) == IF o >= 0 /\ o < Len(bytes) THEN bytes[o + 1] ELSE -1

\* A byte as an operand of |, << : undefined is 0.
Bits(b) == IF b < 0 THEN 0 ELSE b

\* b0 | b1 << 8 | b2 << 16 | b3 << 24: a signed integer of 32 bits.
Int32(b0, b1, b2, b3) ==
    (IF b3 >= 128 THEN b3 - 256 ELSE b3) * 16777216 + 65536 * b2 + 256 * b1 + b0

\* bytes[o], bytes[o + 1], ... = vals, each stored modulo 256.
SetBytes(bytes, o, vals) ==
    [i \in 1..Len(bytes) |->
        IF i - 1 >= o /\ i - 1 < o + Len(vals) THEN vals[i - o] % 256 ELSE bytes[i]]

\* The % of the language: the remainder has the sign of the dividend.
JsRem(a, n) == IF a >= 0 THEN a % n ELSE -((-a) % n)

\* Faulty variant of OrientationValue: every angle is brought into 0..359.
OrientationValueWrapped(deg) ==
    LET r == (deg + 360) % 360
    IN  CASE r = 0 -> 1 [] r = 90 -> 6 [] r = 180 -> 3 [] r = 270 -> 8 [] OTHER -> 0

\* map[(deg + 360) % 360]; 0 stands for undefined.
OrientationValue(deg) ==
    LET r == JsRem(deg + 360, 360)
    IN  CASE r = 0 -> 1 [] r = 90 -> 6 [] r = 180 -> 3 [] r = 270 -> 8 [] OTHER -> 0

ExifId == <<69, 120, 105, 102, 0, 0>>

IsExif(bytes, start) == \A k \in 1..6 : At(bytes, start + k - 1) = ExifId[k]

Rd16(bytes, little, o) ==
    IF little THEN Bits(At(bytes, o)) + 256 * Bits(At(bytes, o + 1))
    ELSE 256 * Bits(At(bytes, o)) + Bits(At(bytes, o + 1))

Wr16(bytes, little, o, v) ==
    IF little THEN SetBytes(bytes, o, <<v % 256, v \div 256>>)
    ELSE SetBytes(bytes, o, <<v \div 256, v % 256>>)

Rd32(bytes, little, o) ==
    IF little
    THEN Int32(Bits(At(bytes, o)), Bits(At(bytes, o + 1)),
               Bits(At(bytes, o + 2)), Bits(At(bytes, o + 3)))
    ELSE Int32(Bits(At(bytes, o + 3)), Bits(At(bytes, o + 2)),
               Bits(At(bytes, o + 1)), Bits(At(bytes, o)))

\* Faulty variant of WriteEntry: the type is written where the tag is.
WriteEntryOverTag(bytes, little, entryPtr, value) ==
    LET typed == Wr16(bytes, little, entryPtr, 3)
    IN  IF little
        THEN SetBytes(typed, entryPtr + 4, <<1, 0, 0, 0, value % 256, value \div 256, 0, 0>>)
        ELSE SetBytes(typed, entryPtr + 4, <<0, 0, 0, 1, value \div 256, value % 256, 0, 0>>)

\* The orientation entry at entryPtr becomes type SHORT, count 1, the value.
WriteEntry(bytes, little, entryPtr, value) ==
    LET typed == Wr16(bytes, little, entryPtr + 2, 3)
    IN  IF little
        THEN SetBytes(typed, entryPtr + 4, <<1, 0, 0, 0, value % 256, value \div 256, 0, 0>>)
        ELSE SetBytes(typed, entryPtr + 4, <<0, 0, 0, 1, value \div 256, value % 256, 0, 0>>)

\* The loop over the entries of IFD0, from its i-th round on.
RECURSIVE ScanEntries(_, _, _, _, _, _, _)
ScanEntries(bytes, little, entryPtr, i, count, segmentEnd, value) ==
    IF i >= count THEN [ok |-> FALSE, bytes |-> bytes]
    ELSE IF Rd16(bytes, little, entryPtr) = 274
         THEN [ok |-> TRUE, bytes |-> WriteEntry(bytes, little, entryPtr, value)]
         ELSE IF entryPtr + 12 + 12 > segmentEnd THEN [ok |-> FALSE, bytes |-> bytes]
              ELSE ScanEntries(bytes, little, entryPtr + 12, i + 1, count, segmentEnd, value)

RewriteOrientation(bytes, exifDataStart, exifDataLength, value) ==
    LET tiffStart == exifDataStart + 6
        isII == At(bytes, tiffStart) = 73 /\ At(bytes, tiffStart + 1) = 73
        isMM == At(bytes, tiffStart) = 77 /\ At(bytes, tiffStart + 1) = 77
        ifd0 == tiffStart + Rd32(bytes, isII, tiffStart + 4)
        segmentEnd == exifDataStart + exifDataLength
        no == [ok |-> FALSE, bytes |-> bytes]
    IN  IF tiffStart + 8 > Len(bytes) THEN no
        ELSE IF ~isII /\ ~isMM THEN no
        ELSE IF Rd16(bytes, isII, tiffStart + 2) # 42 THEN no
        ELSE IF ifd0 + 2 > segmentEnd THEN no
        ELSE ScanEntries(bytes, isII, ifd0 + 2, 0, Rd16(bytes, isII, ifd0), segmentEnd, value)

\* The APP1 segment of 36 bytes: marker, size, "Exif\0\0", a little-endian
\* TIFF header and an IFD0 of one entry, whose 12 bytes start at ifd[2].
BuildMinimalExif(orientation) ==
    LET tiffHeader == <<73, 73, 42, 0, 8, 0, 0, 0>>
        ifd == <<1, 0, 18, 1, 3, 0, 1, 0, orientation % 256, 0, 0, 0, 0, 0, 0, 0, 0, 0>>
        exifPayload == ExifId \o tiffHeader \o ifd
        size == Len(exifPayload) + 2
    IN  <<255, 225, (size \div 256) % 256, size % 256>> \o exifPayload

\* The walk over the segments, from offset on: whether an orientation entry
\* was rewritten, and the bytes after it.
RECURSIVE WalkSegments(_, _, _)
WalkSegments(bytes, offset, value) ==
    LET no == [ok |-> FALSE, bytes |-> bytes]
        marker == At(bytes, offset + 1)
        size == 256 * At(bytes, offset + 2) + At(bytes, offset + 3)
        rewritten == RewriteOrientation(bytes, offset + 4, size - 2, value)
    IN  IF ~(offset + 4 < Len(bytes)) THEN no
        ELSE IF At(bytes, offset) # 255 THEN no
        ELSE IF marker = 218 \/ marker = 217 THEN no
        ELSE IF size < 2 THEN no
        ELSE IF marker = 225 /\ IsExif(bytes, offset + 4) /\ rewritten.ok THEN rewritten
        ELSE WalkSegments(bytes, offset + 2 + size, value)

\* Faulty variant of Inject: the segment is put in front of the image.
InjectInFront(bytes, exifSegment) == exifSegment \o bytes

\* The output of the injecting branch.
Inject(bytes, exifSegment) ==
    SubSeq(bytes, 1, 2) \o exifSegment \o SubSeq(bytes, 3, Len(bytes))

\* The images of fewer than four bytes are left alone.
TooShort(bytes) == Len(bytes) < 4

\* setJpegOrientation(b, deg): the blob returned, and the branch that returned.
SetJpegOrientation(b, deg) ==
    LET value == OrientationValue(deg)
        walked == WalkSegments(b.bytes, 2, value)
    IN  IF b.type # "image/jpeg" THEN [out |-> b, path |-> "unchanged"]
        ELSE IF value = 0 THEN [out |-> b, path |-> "unchanged"]
        ELSE IF TooShort(b.bytes) \/ At(b.bytes, 0) # 255 \/ At(b.bytes, 1) # 216
             THEN [out |-> b, path |-> "unchanged"]
        ELSE IF ~walked.ok
             THEN [out |-> [type |-> "image/jpeg",
                            bytes |-> Inject(b.bytes, BuildMinimalExif(value))],
                   path |-> "injected"]
             ELSE [out |-> [type |-> "image/jpeg", bytes |-> walked.bytes],
                   path |-> "rewritten"]

\* The images given to the codec, built as a file writer builds them.
U16(little, v) == IF little THEN <<v % 256, v \div 256>> ELSE <<v \div 256, v % 256>>

\* The four bytes of v in two's complement.
U32(little, v) ==
    LET u == IF v >= 0 THEN v ELSE -v - 1
        b == [k \in 1..4 |->
                LET d == CASE k = 1 -> u % 256 [] k = 2 -> (u \div 256) % 256
                           [] k = 3 -> (u \div 65536) % 256 [] OTHER -> u \div 16777216
                IN  IF v >= 0 THEN d ELSE 255 - d]
    IN  IF little THEN b ELSE <<b[4], b[3], b[2], b[1]>>

\* A directory entry: tag, type, count and a value field holding a SHORT.
Entry(little, tag, type, count, value) ==
    U16(little, tag) \o U16(little, type) \o U32(little, count)
        \o U16(little, value) \o <<0, 0>>

RECURSIVE Flatten(_)
Flatten(chunks) == IF chunks = <<>> THEN <<>> ELSE Head(chunks) \o Flatten(Tail(chunks))

\* A TIFF block: byte order, magic number, offset of IFD0, padding up to
\* it, the entry count it declares, its entries, the next-IFD pointer.
Tiff(order, magic, ifdOffset, count, entries) ==
    LET little == order[1] = 73
    IN  order \o U16(little, magic) \o U32(little, ifdOffset)
        \o [k \in 1..(IF ifdOffset \in 9..16 THEN ifdOffset - 8 ELSE 0) |-> 0]
        \o U16(little, count) \o Flatten(entries) \o <<0, 0, 0, 0>>

Segment(marker, payload) == <<255, marker>> \o U16(FALSE, Len(payload) + 2) \o payload

ExifSegment(tiff) == Segment(225, ExifId \o tiff)

SOI == <<255, 216>>
App0 == Segment(224, <<74, 70, 73, 70, 0>>)
Xmp == Segment(225, <<104, 116, 116, 112, 58, 47, 47>>)
Scan == <<255, 218, 0, 2, 7, 255, 217>>
II == <<73, 73>>
MM == <<77, 77>>
Make(little) == Entry(little, 271, 2, 1, 65)
Oriented(little) == Entry(little, 274, 3, 1, 1)
OddlyOriented(little) == Entry(little, 274, 4, 2, 1285)

Images ==
    { SOI \o App0 \o Scan,
      SOI \o Scan,
      SOI \o ExifSegment(Tiff(II, 42, 8, 1, <<Oriented(TRUE)>>)) \o Scan,
      SOI \o App0
          \o ExifSegment(Tiff(MM, 42, 8, 2, <<Make(FALSE), OddlyOriented(FALSE)>>)) \o Scan,
      SOI \o ExifSegment(Tiff(II, 42, 8, 1, <<Make(TRUE)>>)) \o Scan,
      SOI \o ExifSegment(Tiff(II, 42, 8, 1, <<Make(TRUE)>>))
          \o ExifSegment(Tiff(MM, 42, 8, 1, <<Oriented(FALSE)>>)) \o Scan,
      SOI \o ExifSegment(Tiff(MM, 43, 8, 1, <<Oriented(FALSE)>>)) \o Scan,
      SOI \o ExifSegment(Tiff(<<73, 77>>, 42, 8, 1, <<Oriented(TRUE)>>)) \o Scan,
      SOI \o Xmp \o ExifSegment(Tiff(II, 42, 10, 1, <<OddlyOriented(TRUE)>>)) \o Scan,
      SOI \o ExifSegment(Tiff(MM, 42, -16, 1, <<Oriented(FALSE)>>)) \o Scan,
      SOI \o <<255, 224, 0, 1>>
          \o ExifSegment(Tiff(II, 42, 8, 1, <<Oriented(TRUE)>>)) \o Scan,
      SOI \o ExifSegment(Tiff(MM, 42, 8, 3, <<Make(FALSE)>>)) \o Scan,
      SOI \o ExifSegment(II \o U16(TRUE, 42) \o U32(TRUE, 8) \o U16(TRUE, 1)
                              \o U16(TRUE, 274)) \o Scan,
      SOI \o Segment(224, U16(FALSE, 1) \o Oriented(FALSE))
          \o ExifSegment(Tiff(MM, 42, -24, 0, << >>)) \o Scan,
      <<137, 80, 78, 71, 13, 10, 26, 10>> }

BlobTypes == {"image/jpeg", "image/png"}
Degrees == {0, 90, 180, 270, -90, 360, 450, 45, -450, -720}

NoStamp ==
    [op |-> "none", calls |-> 0, deg |-> 0, input |-> [type |-> "image/jpeg", bytes |-> <<>>],
     path |-> "unchanged"]

\* A blob of the given type and bytes comes in.
LoadImage(type, img) ==
    /\ stampOp.op = "none"
    /\ blob.bytes = <<>>
    /\ blob' = [type |-> type, bytes |-> img]
    /\ stampOp' = NoStamp
    /\ UNCHANGED <<ringVars, capVars, camVars, fusion, captureSettings, video, streams, tonePass>>

\* The blob at hand is one of a file cut short after n bytes.
Truncate(n) ==
    /\ stampOp.op = "none"
    /\ n < Len(blob.bytes)
    /\ blob' = [blob EXCEPT !.bytes = SubSeq(blob.bytes, 1, n)]
    /\ UNCHANGED stampOp
    /\ UNCHANGED <<ringVars, capVars, camVars, fusion, captureSettings, video, streams, tonePass>>

\* A call of setJpegOrientation on the blob at hand, which becomes its result.
Stamp(bound, deg) ==
    /\ stampOp.calls < bound
    /\ LET r == SetJpegOrientation(blob, deg)
       IN  /\ blob' = r.out
           /\ stampOp' = [op |-> "stamp", calls |-> stampOp.calls + 1, deg |-> deg,
                          input |-> blob, path |-> r.path]
    /\ UNCHANGED <<ringVars, capVars, camVars, fusion, captureSettings, video, streams, tonePass>>

InitCodec ==
    /\ blob = [type |-> "image/jpeg", bytes |-> <<>>]
    /\ stampOp = NoStamp

(***************************************************************************)
(* Part 6: the merges of useAdvancedCapture and captureLongExposure.       *)
(*                                                                         *)
(* Every pixel of a frame is merged alike, so a frame is one pixel         *)
(* <<r, g, b, a>>.  A quotient a merge stores into its Uint8ClampedArray   *)
(* is kept exact as numerator and denominator.  The linear-light values of *)
(* accumulateAndToneMap are carried in units of 10^-8.                     *)
(***************************************************************************)
Channels == 1..4
ColourChannels == 1..3
NoPixel == <<>>

RECURSIVE SeqSum(_)
SeqSum(s) == IF s = <<>> THEN 0 ELSE Head(s) + SeqSum(Tail(s))

ChannelOf(frames, ch) == [i \in 1..Len(frames) |-> frames[i][ch]]

\* Faulty variant of ToUint8Clamp: the quotient is cut off, not rounded.
ToUint8Truncate(num, den) == Min(255, num \div den)

\* A store of num/den (num >= 0, den > 0) into a Uint8ClampedArray: clamped to
\* 0..255 and rounded to the nearest integer, a tie going to the even one.
ToUint8Clamp(num, den) ==
    LET q == num \div den
        twice == 2 * (num % den)
        rounded == IF twice < den THEN q
                   ELSE IF twice > den THEN q + 1
                   ELSE IF q % 2 = 0 THEN q ELSE q + 1
    IN  Min(255, rounded)

\* mergedData of mergeFrames: the plain mean of every channel of every frame handed in.
MergedData(frames) ==
    IF Len(frames) = 0 THEN NoPixel
    ELSE [ch \in Channels |-> ToUint8Clamp(SeqSum(ChannelOf(frames, ch)), Len(frames))]

RECURSIVE Factorial(_)
Factorial(n) == IF n <= 1 THEN 1 ELSE n * Factorial(n - 1)

\* Faulty variant of Weight: the last frame weighs most.
WeightReversed(index, n) == Factorial(n) \div (n - index)

\* The weight 1 / (index + 1) of the frame at position index (from 0) among n
\* frames, in units of 1 / n!.
Weight(index, n) == Factorial(n) \div (index + 1)

\* mergeFramesWithMotionBlur: the weighted sum over the sum of the weights.
MergeFramesWithMotionBlur(frames) ==
    LET n == Len(frames)
        totalWeight == SeqSum([i \in 1..n |-> Weight(i - 1, n)])
        weighted(ch) == SeqSum([i \in 1..n |-> frames[i][ch] * Weight(i - 1, n)])
    IN  IF n = 0 THEN NoPixel
        ELSE [ch \in Channels |-> ToUint8Clamp(weighted(ch), totalWeight)]

\* linearLUT[i] = (i / 255) ^ 2.2 for the channel values the frames take.
LinearLUT ==
    0 :> 0 @@ 77 :> 7176145 @@ 128 :> 21951972 @@ 200 :> 58597298 @@ 255 :> 100000000

\* ToneThresholds[c + 1] is the least linear mean r for which
\* 255 * (r / (1 + r)) ^ (1 / 2.2) reaches c, that is l / (1 - l) for
\* l = (c / 255) ^ 2.2.  No mean of LinearLUT values reaches the last entry.
ToneThresholds ==
    <<0, 508, 2333, 5693, 10720, 17515, 26161, 36727,
      49275, 63859, 80531, 99336, 120319, 143519, 168977, 196728,
      226809, 259253, 294094, 331365, 371096, 413319, 458064, 505361,
      555240, 607730, 662861, 720660, 781158, 844382, 910362, 979127,
      1050705, 1125126, 1202420, 1282615, 1365741, 1451828, 1540907, 1633009,
      1728163, 1826402, 1927758, 2032262, 2139948, 2250847, 2364995, 2482426,
      2603174, 2727274, 2854763, 2985677, 3120054, 3257931, 3399348, 3544344,
      3692959, 3845235, 4001212, 4160935, 4324446, 4491790, 4663012, 4838160,
      5017280, 5200421, 5387632, 5578964, 5774469, 5974200, 6178210, 6386556,
      6599293, 6816480, 7038175, 7264440, 7495336, 7730927, 7971278, 8216456,
      8466527, 8721563, 8981635, 9246816, 9517180, 9792805, 10073770, 10360155,
      10652043, 10949519, 11252670, 11561584, 11876354, 12197073, 12523837, 12856746,
      13195900, 13541403, 13893363, 14251889, 14617092, 14989090, 15368000, 15753944,
      16147048, 16547439, 16955251, 17370620, 17793684, 18224587, 18663478, 19110508,
      19565833, 20029614, 20502017, 20983212, 21473373, 21972682, 22481324, 22999491,
      23527381, 24065195, 24613143, 25171443, 25740315, 26319990, 26910704, 27512701,
      28126235, 28751564, 29388958, 30038695, 30701059, 31376348, 32064868, 32766935,
      33482876, 34213029, 34957745, 35717384, 36492323, 37282948, 38089663, 38912883,
      39753040, 40610582, 41485972, 42379691, 43292239, 44224133, 45175913, 46148137,
      47141385, 48156261, 49193393, 50253434, 51337063, 52444988, 53577944, 54736699,
      55922054, 57134841, 58375930, 59646230, 60946689, 62278295, 63642085, 65039140,
      66470592, 67937625, 69441479, 70983455, 72564914, 74187286, 75852069, 77560839,
      79315250, 81117042, 82968045, 84870184, 86825490, 88836102, 90904276, 93032394,
      95222973, 97478672, 99802306, 102196856>>

\* (r * 255) | 0 after the tone curve and the gamma encoding: the largest
\* integer not above 255 * (r / (1 + r)) ^ (1 / 2.2).
ToneMapChannel(r) ==
    CHOOSE c \in 0..(Len(ToneThresholds) - 2) :
        ToneThresholds[c + 1] <= r /\ r < ToneThresholds[c + 2]

\* accumulateAndToneMap (both tone options run the same curve): the mean of
\* the linear values of the first count frames, tone-mapped; alpha is 255.
AccumulateAndToneMap(frames, maxFrames) ==
    LET count == ScalarCount(frames, maxFrames)
        accum(ch) == SeqSum([f \in 1..count |-> LinearLUT[frames[f][ch]]])
    IN  IF count = 0 THEN NoPixel
        ELSE [ch \in Channels |->
                IF ch \in ColourChannels THEN ToneMapChannel(accum(ch) \div count)
                ELSE 255]

frameInterval == 100

\* Faulty variant of FrameCountOf: a started interval counts as a whole one.
FrameCountCeil(exposureMs) ==
    Max(1, (exposureMs + frameInterval - 1) \div frameInterval)

\* frameCount of captureLongExposure, the exposure taken in milliseconds.
FrameCountOf(exposureMs) == Max(1, exposureMs \div frameInterval)

\* The channel values are 0, 77, 128, 200 and 255.
Pixels == {<<0, 0, 0, 255>>, <<128, 128, 128, 255>>, <<255, 255, 255, 255>>,
           <<77, 200, 0, 128>>, <<200, 77, 255, 255>>}
FrameLists == UNION {[1..n -> Pixels] : n \in 0..MaxFrames}
MaxFramesOptions == 0..MaxFrames
ExposuresMs == {0, 50, 100, 250, 300}

IdleFusion ==
    [op |-> "none", pc |-> "idle", exposureMs |-> 0, frameCount |-> 0,
     maxFrames |-> 0, elapsedMs |-> 0, frames |-> <<>>, out |-> NoPixel]

MergeOf(op, frames, maxFrames) ==
    CASE op = "mergeFrames" -> MergedData(frames)
      [] op = "mergeFramesWithMotionBlur" -> MergeFramesWithMotionBlur(frames)
      [] op = "accumulateAndToneMap" -> AccumulateAndToneMap(frames, maxFrames)

\* One call of a merge on the frames handed in.
CallMerge(op, frames, maxFrames) ==
    /\ fusion.pc = "idle"
    /\ fusion' = [IdleFusion EXCEPT !.op = op, !.pc = "done", !.frames = frames,
                                    !.maxFrames = maxFrames,
                                    !.out = MergeOf(op, frames, maxFrames)]
    /\ UNCHANGED <<ringVars, capVars, camVars, codecVars, captureSettings, video, streams, tonePass>>

\* The body of the sampling loop of captureLongExposure for one sample: the
\* live frame is pushed; the last sample is followed by the weighted merge.
TakeSample(f, live) ==
    LET frames == Append(f.frames, live)
    IN  IF Len(frames) < f.frameCount
        THEN [f EXCEPT !.frames = frames, !.pc = "sampling"]
        ELSE [f EXCEPT !.frames = frames, !.pc = "done",
                       !.out = MergeFramesWithMotionBlur(frames)]

\* captureLongExposure up to its first await: frameCount and the first sample.
CaptureLongExposure(exposureMs, live) ==
    /\ fusion.pc = "idle"
    /\ fusion' = TakeSample([IdleFusion EXCEPT !.op = "captureLongExposure",
                                               !.exposureMs = exposureMs,
                                               !.frameCount = FrameCountOf(exposureMs)],
                            live)
    /\ UNCHANGED <<ringVars, capVars, camVars, codecVars, captureSettings, video, streams, tonePass>>

\* The timer of the loop fires after frameInterval: the next sample.
SampleTimer(live) ==
    /\ fusion.pc = "sampling"
    /\ fusion' = TakeSample([fusion EXCEPT !.elapsedMs = @ + frameInterval], live)
    /\ UNCHANGED <<ringVars, capVars, camVars, codecVars, captureSettings, video, streams, tonePass>>

InitFusion == fusion = IdleFusion

(***************************************************************************)
(* Part 7: the capture settings of useCameraMode.                          *)
(***************************************************************************)
CameraModes == {"photo", "night", "longExposure"}
OutputFormats == {"jpeg", "raw", "both"}
SettingFrameCounts == {1, 8, 32}
IsoValues == {100, 400}
ExposureCompensations == {0, 1}

DEFAULT_MANUAL_CONTROLS == [iso |-> 100, exposureCompensation |-> 0]

DEFAULT_CAPTURE_SETTINGS ==
    [mode |-> "photo", frameCount |-> 1, manualControls |-> DEFAULT_MANUAL_CONTROLS,
     enableHDR |-> FALSE, outputFormat |-> "jpeg"]

\* { ...prev, ...updates }: the keys of updates replace those of prev.
Spread(prev, updates) ==
    [k \in DOMAIN prev \cup DOMAIN updates |->
        IF k \in DOMAIN updates THEN updates[k] ELSE prev[k]]

\* A Partial<..>: the keys chosen out of a whole record.
Partial(whole, keys) == [k \in keys |-> whole[k]]

CaptureUpdates ==
    {Partial([mode |-> m, frameCount |-> n, enableHDR |-> hdr, outputFormat |-> fmt], keys) :
        m \in CameraModes, n \in SettingFrameCounts, hdr \in BOOLEAN,
        fmt \in OutputFormats,
        keys \in SUBSET {"mode", "frameCount", "enableHDR", "outputFormat"}}

ManualUpdates ==
    {Partial([iso |-> iso, exposureCompensation |-> ev], keys) :
        iso \in IsoValues, ev \in ExposureCompensations,
        keys \in SUBSET {"iso", "exposureCompensation"}}

SetMode(mode) ==
    /\ captureSettings' =
          [captureSettings EXCEPT !.mode = mode,
                                  !.frameCount = IF mode = "night" THEN 8
                                                 ELSE IF mode = "longExposure" THEN 1
                                                 ELSE 1]
    /\ UNCHANGED <<ringVars, capVars, camVars, codecVars, fusion, video, streams, tonePass>>

UpdateCaptureSettings(updates) ==
    /\ captureSettings' = Spread(captureSettings, updates)
    /\ UNCHANGED <<ringVars, capVars, camVars, codecVars, fusion, video, streams, tonePass>>

UpdateManualControls(updates) ==
    /\ captureSettings' =
          [captureSettings EXCEPT !.manualControls = Spread(@, updates)]
    /\ UNCHANGED <<ringVars, capVars, camVars, codecVars, fusion, video, streams, tonePass>>

InitMode == captureSettings = DEFAULT_CAPTURE_SETTINGS

(***************************************************************************)
(* Part 8: the video element the frames are drawn from, as CameraApp       *)
(* drives it: handleStartCamera (startCamera, then startFrameBuffer),      *)
(* switchDevice / switchFacing (startCamera alone) and handleStopCamera.   *)
(* Calls of startCamera do not overlap here.                               *)
(*                                                                         *)
(* video.log holds the sizes the source took and the value of clock at     *)
(* which it took them: the frame of instant t was drawn from the source    *)
(* of the last entry made before t.                                        *)
(***************************************************************************)
NoSize == [width |-> 0, height |-> 0]
FastStartSizes == {[width |-> 1280, height |-> 720], [width |-> 1920, height |-> 1080]}
UpgradedSizes == {[width |-> 1920, height |-> 1080], [width |-> 3840, height |-> 2160]}

NoVideo == [pc |-> "none", size |-> NoSize, upgraded |-> FALSE, log |-> << >>]

SourceSet(v, size) ==
    [v EXCEPT !.size = size, !.log = Append(@, [at |-> clock, size |-> size])]

\* startCamera: the stream acquired is made the source of the video element
\* and its metadata is loaded; the video has the size of the initial request.
SourceAcquired(size) ==
    /\ video.pc # "starting"
    /\ Len(video.log) < MaxSourceChanges
    /\ video' = [SourceSet(video, size) EXCEPT !.pc = "starting", !.upgraded = FALSE]
    /\ UNCHANGED <<ringVars, capVars, camVars, codecVars, fusion, captureSettings, streams, tonePass>>

\* attemptUpgrade: the device accepts a strategy and the track, and with it the
\* video, takes a larger size.
SourceUpgraded(size) ==
    /\ video.pc = "starting"
    /\ ~video.upgraded
    /\ size.width > video.size.width
    /\ Len(video.log) < MaxSourceChanges
    /\ video' = [SourceSet(video, size) EXCEPT !.upgraded = TRUE]
    /\ UNCHANGED <<ringVars, capVars, camVars, codecVars, fusion, captureSettings, streams, tonePass>>

\* startCamera resolves.  In handleStartCamera startFrameBuffer runs next; after
\* switchDevice and switchFacing nothing does.
StartCameraResolved(limit, viaHandler, ready) ==
    /\ video.pc = "starting"
    /\ video' = [video EXCEPT !.pc = "settled"]
    /\ IF viaHandler /\ ~isCapturing
       THEN /\ starts < MaxStarts
            /\ clock < limit
            /\ isCapturing' = TRUE
            /\ starts' = starts + 1
            /\ CaptureFrame(pendingTicks, ready)
       ELSE UNCHANGED ringVars
    /\ UNCHANGED <<capVars, camVars, codecVars, fusion, captureSettings, streams, tonePass>>

\* handleStopCamera: camera.stopCamera() takes the source off the video element,
\* stopFrameBuffer() clears the flag and the buffer.
HandleStopCamera ==
    /\ video.pc = "settled"
    /\ Len(video.log) < MaxSourceChanges
    /\ video' = [SourceSet(video, NoSize) EXCEPT !.pc = "stopped"]
    /\ isCapturing' = FALSE
    /\ frameBuffer' = <<>>
    /\ lastTick' = NoTick
    /\ UNCHANGED <<pendingTicks, clock, starts, appendLog>>
    /\ UNCHANGED <<capVars, camVars, codecVars, fusion, captureSettings, streams, tonePass>>

\* A queued captureFrame callback runs; without a source the video has no size.
SourceTick(limit) ==
    \E ready \in BOOLEAN :
        /\ pendingTicks > 0
        /\ clock < limit
        /\ ready => video.size # NoSize
        /\ UNCHANGED <<isCapturing, starts>>
        /\ CaptureFrame(pendingTicks - 1, ready)
        /\ UNCHANGED <<capVars, camVars, utilVars>>

InitVideo == video = NoVideo
(***************************************************************************)
(* Part 9: the streams of useCamera.  A stream is known by the number of   *)
(* its acquisition; a call of startCamera runs cleanupStream as the render *)
(* it was made in created it, with the state.stream of that render.  The   *)
(* steps of startCamera after line 345 leave the streams alone.            *)
(***************************************************************************)
NoStream == 0

StartKinds == {"startCamera", "switchFacing", "switchDevice"}

NoStreams == [current |-> NoStream, live |-> {}, acquired |-> 0, pending |-> << >>]

\* The sequence without its p-th element.
Without(seq, p) == SubSeq(seq, 1, p - 1) \o SubSeq(seq, p + 1, Len(seq))

\* startCamera is called, by itself or by switchFacing or switchDevice, which
\* call it when there is a stream; it runs up to getUserMedia.
StartCameraCalled(kind) ==
    /\ streams.acquired + Len(streams.pending) < MaxStreams
    /\ kind # "startCamera" => streams.current # NoStream
    /\ status' = "Starting"
    /\ streams' = [streams EXCEPT
                      !.pending = Append(@, [kind |-> kind, seen |-> streams.current])]
    /\ UNCHANGED <<statusBy, hasStream, stateDeviceId, upgradeAttempted, aspectFailures,
                   flows, recalled, ladderRuns, writers>>
    /\ UNCHANGED <<now, cache, cacheOp, evicted>>
    /\ UNCHANGED <<ringVars, capVars, codecVars, fusion, captureSettings, video, tonePass>>

\* The streams whose tracks cleanupStream stops, when it was created with
\* state.stream = seen and the stream recorded by now is current.
StoppedByCleanup(seen, current) == {seen} \ {NoStream}

\* getUserMedia settles for the p-th call in flight: with a stream, which is
\* recorded after cleanupStream has run, or with an error.
GetUserMediaSettled(p, ok) ==
    LET call == streams.pending[p]
        stream == streams.acquired + 1
    IN  /\ IF ok
           THEN /\ CleanupStream(call.seen # NoStream)
                /\ hasStream' = TRUE
                /\ streams' = [current |-> stream,
                               live |-> (streams.live
                                           \ StoppedByCleanup(call.seen, streams.current))
                                        \cup {stream},
                               acquired |-> stream,
                               pending |-> Without(streams.pending, p)]
           ELSE /\ status' = "Failed"
                /\ streams' = [streams EXCEPT !.pending = Without(@, p)]
                /\ UNCHANGED <<hasStream, upgradeAttempted, aspectFailures, ladderRuns>>
        /\ UNCHANGED <<statusBy, stateDeviceId, flows, recalled, writers>>
        /\ UNCHANGED <<now, cache, cacheOp, evicted>>
        /\ UNCHANGED <<ringVars, capVars, codecVars, fusion, captureSettings, video, tonePass>>

\* stopCamera: cleanupStream of the current render.
StopStreams ==
    /\ CleanupStream(streams.current # NoStream)
    /\ hasStream' = FALSE
    /\ streams' = [streams EXCEPT
                      !.current = NoStream,
                      !.live = @ \ StoppedByCleanup(streams.current, streams.current)]
    /\ UNCHANGED <<statusBy, stateDeviceId, flows, recalled, writers>>
    /\ UNCHANGED <<now, cache, cacheOp, evicted>>
    /\ UNCHANGED <<ringVars, capVars, codecVars, fusion, captureSettings, video, tonePass>>

InitStreams == streams = NoStreams

(***************************************************************************)
(* Part 10: the tone-map pass of webgpuAccumulateHDR.  A texel is a pair   *)
(* <<x, y>>; the output texture is recorded as the source texel each of    *)
(* its texels was computed from.  The accumulation passes before it, and   *)
(* the readback after it, leave the coordinates alone.                     *)
(***************************************************************************)
WorkgroupSize == 8

\* Math.ceil(a / b) for a >= 0, b > 0.
CeilQuotient(a, b) == (a + b - 1) \div b

Grid(w, h) == {<<x, y>> : x \in 0..(w - 1), y \in 0..(h - 1)}

\* A texel of the output texture no invocation has stored to.
NoSample == <<-1, -1>>

\* Lines 157-165: the quarter turns of an orientation.
RotQuarter(orientation) ==
    LET o == JsRem(orientation + 360, 360)
    IN  CASE o = 90 -> 1 [] o = 180 -> 2 [] o = 270 -> 3 [] OTHER -> 0

\* Faulty variant of SourceOf: the quarter turns mirror along the width.
SourceOfAlongWidth(rot, x, y, srcW, srcH) ==
    CASE rot = 1 -> <<y, srcW - 1 - x>>
      [] rot = 2 -> <<srcW - 1 - x, srcH - 1 - y>>
      [] rot = 3 -> <<srcH - 1 - y, x>>
      [] OTHER -> <<x, y>>

\* Lines 83-99: the source coordinates of the output texel <<x, y>>.
SourceOf(rot, x, y, srcW, srcH) ==
    CASE rot = 1 -> <<y, srcH - 1 - x>>
      [] rot = 2 -> <<srcW - 1 - x, srcH - 1 - y>>
      [] rot = 3 -> <<srcW - 1 - y, x>>
      [] OTHER -> <<x, y>>

\* main of toneMapWGSL for the invocation gid: the source texel it loads and
\* stores the tone of at gid, or NoSample when it returns early.
ToneMapMain(gid, outDims, srcW, srcH, rot) ==
    LET s == SourceOf(rot, gid[1], gid[2], srcW, srcH)
    IN  IF gid[1] >= outDims[1] \/ gid[2] >= outDims[2] THEN NoSample
        ELSE IF s[1] < 0 \/ s[2] < 0 \/ s[1] >= srcW \/ s[2] >= srcH THEN NoSample
        ELSE s

\* The invocations of dispatchWorkgroups(groupsX, groupsY).
Invocations(groupsX, groupsY) == Grid(WorkgroupSize * groupsX, WorkgroupSize * groupsY)

NoTonePass ==
    [pc |-> "idle", w |-> 0, h |-> 0, orientation |-> 0, rotQuarter |-> 0,
     outW |-> 0, outH |-> 0, sampled |-> << >>]

Orientations == {0, 90, 180, 270, -90, 360, 450, 45}

\* webgpuAccumulateHDR on a video of w x h, up to the tone-map pass: it throws
\* when the video has no size, and makes an output texture of outW x outH.
WebgpuAccumulateHDR(w, h, orientation) ==
    LET rotQuarter == RotQuarter(orientation)
        outW == IF rotQuarter % 2 = 1 THEN h ELSE w
        outH == IF rotQuarter % 2 = 1 THEN w ELSE h
    IN  /\ gpuSupported
        /\ tonePass.pc # "toneMap"
        /\ IF w = 0 \/ h = 0
           THEN /\ tonePass' = [NoTonePass EXCEPT !.pc = "failed", !.w = w, !.h = h,
                                                  !.orientation = orientation]
                /\ UNCHANGED cachedDevice
           ELSE /\ tonePass' = [pc |-> "toneMap", w |-> w, h |-> h,
                                orientation |-> orientation, rotQuarter |-> rotQuarter,
                                outW |-> outW, outH |-> outH,
                                sampled |-> [p \in Grid(outW, outH) |-> NoSample]]
                /\ cachedDevice' = TRUE
        /\ UNCHANGED <<cap, gpuSupported>>
        /\ UNCHANGED <<ringVars, camVars, codecVars, fusion, captureSettings, video, streams>>

\* Lines 256-280: the uniforms are written and the pass is dispatched; every
\* invocation runs main, and the ones that do not return store at their gid.
ToneMapDispatch ==
    LET t == tonePass
        run == Invocations(CeilQuotient(t.outW, WorkgroupSize),
                           CeilQuotient(t.outH, WorkgroupSize))
    IN  /\ t.pc = "toneMap"
        /\ tonePass' = [t EXCEPT
              !.pc = "done",
              !.sampled = [p \in Grid(t.outW, t.outH) |->
                              IF p \in run
                              THEN ToneMapMain(p, <<t.outW, t.outH>>, t.w, t.h, t.rotQuarter)
                              ELSE NoSample]]
        /\ UNCHANGED <<ringVars, capVars, camVars, codecVars, fusion, captureSettings,
                       video, streams>>

InitTonePass == tonePass = NoTonePass

InitRing ==
    /\ isCapturing = FALSE
    /\ frameBuffer = <<>>
    /\ pendingTicks = 0
    /\ clock = 0
    /\ starts = 0
    /\ appendLog = <<>>
    /\ lastTick = NoTick

Init ==
    /\ InitRing
    /\ cap = IdleCapture
    /\ cachedDevice = FALSE
    /\ gpuSupported \in BOOLEAN
    /\ InitCache
    /\ InitCamera
    /\ InitCodec
    /\ InitFusion
    /\ InitMode
    /\ InitVideo
    /\ InitStreams
    /\ InitTonePass

\* The ring buffer alone, run past its capacity.
Next ==
    \/ StartFrameBuffer(MaxAppends)
    \/ Tick(MaxAppends)
    \/ StopFrameBuffer

Spec == Init /\ [][Next]_vars

\* The ring buffer with captures in flight.
NextCapture ==
    \/ StartFrameBuffer(MaxCaptureAppends)
    \/ Tick(MaxCaptureAppends)
    \/ StopFrameBuffer
    \/ CaptureStart
    \/ GpuDevice
    \/ GpuReadback
    \/ Encode

SpecCapture == Init /\ [][NextCapture]_vars

\* The capture pipeline at rest, without a GPU.
InitCam == Init /\ gpuSupported = FALSE

\* The capability cache under direct calls, with time passing.
NextCache ==
    \/ \E d \in TimeSteps : AdvanceTime(d)
    \/ \E k \in Devices, p \in Profiles : SetCall(k, p)
    \/ \E k \in Devices, maxAge \in MaxAges : GetCall(k, maxAge)
    \/ \E maxAge \in MaxAges : ClearCall(maxAge)
    \/ \E deviceId \in Devices \cup {NoDevice} : BuildCall(deviceId)

SpecCache == InitCam /\ [][NextCache]_vars

\* The camera with one call of startCamera in flight at a time: the device
\* answering, stopCamera, further calls of attemptUpgrade, and whole cache
\* periods passing between calls (a call takes far less than a cache period).
NextCamera ==
    \/ InFlight = 0 /\ AdvanceTime(MaxAgeMs)
    \/ \E preferMax \in BOOLEAN, customDeviceId \in {NoDevice, "camB"} :
          StartCamera(MaxSessions, 1, preferMax, customDeviceId)
    \/ \E p \in 1..Len(flows), ok \in BOOLEAN :
          \E caps \in UNION {DeviceCaps(d) : d \in Devices} : Acquired(p, ok, caps)
    \/ \E p \in 1..Len(flows) : MetadataReady(p)
    \/ \E p \in 1..Len(flows) : Listed(p)
    \/ \E p \in 1..Len(flows) : RecallUpgrade(p)
    \/ \E p \in 1..Len(flows) : UpgradeReturned(p)
    \/ \E p \in 1..Len(flows), ok \in BOOLEAN, got \in {"requested", "kept"} :
          ApplyAnswered(p, ok, got)
    \/ StopCamera

SpecCamera == InitCam /\ [][NextCamera]_vars

\* Overlapping calls of startCamera on camB, whose requests are granted as made
\* unless they carry an aspect ratio, which the device may refuse.
NextOverlap ==
    \/ StartCamera(MaxOverlap, MaxOverlap, FALSE, "camB")
    \/ \E p \in 1..Len(flows), ok \in BOOLEAN :
          Acquired(p, ok, [has |-> TRUE, maxW |-> 1937, maxH |-> 1096])
    \/ \E p \in 1..Len(flows) : MetadataReady(p)
    \/ \E p \in 1..Len(flows) : Listed(p)
    \/ \E p \in 1..Len(flows) : RecallUpgrade(p)
    \/ \E p \in 1..Len(flows) : UpgradeReturned(p)
    \/ \E p \in 1..Len(flows), ok \in BOOLEAN :
          /\ flows[p].pc = "upgrade"
          /\ ok \/ flows[p].strategies[flows[p].idx].affectsAspect
          /\ ApplyAnswered(p, ok, "requested")
    \/ StopCamera

SpecOverlap == InitCam /\ [][NextOverlap]_vars

\* attemptUpgrade under direct calls: every strategy is answered in its turn.
NextUpgrade ==
    \/ \E track \in UpgradeTracks, caps \in UpgradeCaps,
          failures \in 0..MaxConsecAspectFailure : AttemptUpgrade(track, caps, failures)
    \/ \E p \in 1..Len(flows), ok \in BOOLEAN, got \in {"requested", "kept"} :
          ApplyAnswered(p, ok, got)
    \/ \E p \in 1..Len(flows) : UpgradeReturned(p)
SpecUpgrade == InitCam /\ [][NextUpgrade]_vars

\* The ring buffer and night captures while the source of the video changes.
NextSource ==
    \/ \E size \in FastStartSizes : SourceAcquired(size)
    \/ \E size \in UpgradedSizes : SourceUpgraded(size)
    \/ \E viaHandler \in BOOLEAN, ready \in BOOLEAN :
          StartCameraResolved(MaxCaptureAppends, viaHandler, ready)
    \/ HandleStopCamera
    \/ SourceTick(MaxCaptureAppends)
    \/ video.pc = "settled" /\ CaptureStart
    \/ Encode
SpecSource == InitCam /\ [][NextSource]_vars

\* The streams under calls that overlap.
NextStreams ==
    \/ \E kind \in StartKinds : StartCameraCalled(kind)
    \/ \E p \in 1..Len(streams.pending), ok \in BOOLEAN : GetUserMediaSettled(p, ok)
    \/ StopStreams

SpecStreams == InitCam /\ [][NextStreams]_vars

\* The capture pipeline at rest, with a GPU.
InitGpu == Init /\ gpuSupported = TRUE

\* The tone-map pass on videos of every small size and orientation.
NextToneMap ==
    \/ \E w \in 0..MaxSide, h \in 0..MaxSide, orientation \in Orientations :
          WebgpuAccumulateHDR(w, h, orientation)
    \/ ToneMapDispatch

SpecToneMap == InitGpu /\ [][NextToneMap]_vars

\* The orientation codec under calls of setJpegOrientation on whole and on
\* truncated files.
NextCodec ==
    \/ \E type \in BlobTypes, img \in Images : LoadImage(type, img)
    \/ \E n \in 0..(Len(blob.bytes) - 1) : Truncate(n)
    \/ \E deg \in Degrees : Stamp(MaxStamps, deg)

SpecCodec == InitCam /\ [][NextCodec]_vars

NextFusion ==
    \/ \E op \in {"mergeFrames", "mergeFramesWithMotionBlur"}, frames \in FrameLists :
           CallMerge(op, frames, 0)
    \/ \E frames \in FrameLists, maxFrames \in MaxFramesOptions :
           CallMerge("accumulateAndToneMap", frames, maxFrames)
    \/ \E exposureMs \in ExposuresMs, live \in Pixels : CaptureLongExposure(exposureMs, live)
    \/ \E live \in Pixels : SampleTimer(live)
SpecFusion == InitCam /\ [][NextFusion]_vars

NextMode ==
    \/ \E mode \in CameraModes : SetMode(mode)
    \/ \E updates \in CaptureUpdates : UpdateCaptureSettings(updates)
    \/ \E updates \in ManualUpdates : UpdateManualControls(updates)
SpecMode == InitCam /\ [][NextMode]_vars

(***************************************************************************)
(* The ring buffer (checked under Spec).                                   *)
(***************************************************************************)

\* C1: in every reachable state the ring buffer holds at most 32 frames.
RingBufferBounded == Len(frameBuffer) <= Capacity

\* A frame was pushed onto a full buffer, which is full again.
RingBufferFullWitness ==
    /\ Len(frameBuffer) = Capacity
    /\ Len(appendLog) > Capacity
    /\ lastTick.kind = "append"

\* C2: while the loop runs the buffer is exactly the most recent min(n, 32) of the n
\* frames pushed since the last start, in the order of their capture, and the frame
\* just pushed is its last element.
RingBufferHoldsMostRecent ==
    /\ isCapturing => frameBuffer = SliceLast(appendLog, Capacity)
    /\ \A i \in 1..Len(frameBuffer) - 1 : frameBuffer[i].t < frameBuffer[i + 1].t
    /\ lastTick.kind = "append" =>
          /\ frameBuffer # <<>>
          /\ frameBuffer[Len(frameBuffer)] = TickFrame(clock)

\* The oldest frame has been evicted by a push at capacity.
RingBufferEvictedWitness ==
    /\ isCapturing
    /\ Len(appendLog) > Capacity
    /\ lastTick.kind = "append"
    /\ frameBuffer[1] # appendLog[1]

\* C3: the run of captureFrame that observes the stop flag schedules no further run.
StoppedTickSchedulesNothing ==
    lastTick.kind = "skipStopped" => ~lastTick.resched

\* C4: from stopFrameBuffer until the next startFrameBuffer the buffer is empty,
\* whatever callbacks run in between.
StoppedBufferStaysEmpty == ~isCapturing => frameBuffer = <<>>

\* Frames had been buffered, the loop was stopped, and a callback has run since.
StoppedTickWitness ==
    /\ ~isCapturing
    /\ clock > 0
    /\ lastTick.kind = "skipStopped"
    /\ frameBuffer = <<>>

(***************************************************************************)
(* captureMultiFrame (checked under SpecCapture).                          *)
(***************************************************************************)
Settled == cap.pc \in {"encode", "done", "failed"}
CameraReady == cap.cause # "not-ready"
NightCall == cap.pc # "idle" /\ cap.mode = "night" /\ CameraReady
RequestedSlice == SliceLast(cap.atBuffer, Min(cap.frameCount, Len(cap.atBuffer)))

\* The instants of a sequence of frames. Two frames of the same instant show the same
\* image at best: the live frame read after the k-th buffered frame and before the
\* next one is compared as if the video had not advanced since that frame was grabbed.
Instants(frames) == [i \in DOMAIN frames |-> frames[i].t]

\* C5: a night capture with a non-empty buffer merges exactly the most recent
\* min(frameCount, available) frames the buffer held when the capture was made
\* (frames compared by their instants, which favours the code).
NightMergesRecentSlice ==
    (NightCall /\ cap.atBuffer # <<>> /\ cap.pc \in {"encode", "done"})
        => Instants(cap.pixels) = Instants(RequestedSlice)

\* C6: a night capture made with an empty buffer uses the single live frame, runs no
\* merge and no backend, and fails only if the encoder yields no blob; its output
\* carries frame count 1.
EmptyBufferUsesLiveFrame ==
    (NightCall /\ cap.atBuffer = <<>>) =>
        /\ Settled
        /\ cap.path = "live"
        /\ Len(cap.pixels) = 1 /\ cap.pixels[1].src = "live"
        /\ cap.merges = 0 /\ cap.scalarRuns = 0 /\ cap.gpuFrames = <<>>
        /\ cap.pc = "failed" => cap.cause = "encode"
        /\ cap.pc = "done" =>
              /\ cap.meta.frameCount = 1
              /\ cap.meta.algorithm = "single-frame"
              /\ ~cap.meta.enabled

\* An HDR night capture with an empty buffer has delivered its output.
EmptyBufferWitness ==
    /\ NightCall /\ cap.atBuffer = <<>> /\ cap.enableHDR /\ cap.frameCount = 8
    /\ cap.pc = "done"
    /\ cap.meta.frameCount = 1

HdrCall == NightCall /\ cap.enableHDR /\ cap.atBuffer # <<>>

\* C7: in an HDR night capture whose parallel backend is unavailable or fails, the
\* scalar backend runs exactly once and its result is what is encoded; an HDR capture
\* fails only if the scalar backend yields nothing or the encoder yields no blob.
HdrFallbackRunsScalarOnce ==
    /\ (HdrCall /\ cap.gpuFailed) =>
          /\ Settled
          /\ cap.scalarRuns = 1
          /\ cap.pc \in {"encode", "done"} =>
                /\ cap.path = "scalar"
                /\ cap.pixels = cap.scalarFrames
                /\ cap.pixels # <<>>
    /\ HdrCall =>
          /\ cap.scalarRuns <= 1
          /\ cap.scalarRuns = 1 => cap.gpuFailed
          /\ cap.pc = "failed" => cap.cause \in {"scalar", "encode"}

\* The parallel backend failed after it had been started and the capture delivered
\* the scalar result.
HdrFallbackWitness ==
    /\ HdrCall /\ cap.gpuFailed
    /\ cap.gpuFrames # <<>>
    /\ cap.pc = "done"
    /\ cap.path = "scalar"
    /\ cap.scalarRuns = 1

\* C8: the frames the parallel backend sums are the slice of the buffer the scalar
\* backend would receive (frames compared by their instants, which favours the code).
ParallelSumsScalarSlice ==
    cap.pc = "gpuReadback" => Instants(cap.gpuFrames) = Instants(cap.sliceAtGpu)

\* C9: without HDR and with a non-empty buffer the provenance is
\* frameCount = min(requested, buffered) and algorithm = "average-merge".
AverageProvenance ==
    (NightCall /\ ~cap.enableHDR /\ cap.atBuffer # <<>> /\ cap.pc = "done") =>
        /\ cap.meta.frameCount = Min(cap.frameCount, Len(cap.atBuffer))
        /\ cap.meta.algorithm = "average-merge"

\* C9 as amended: frameCount = min(requested, buffered); the algorithm is
\* "average-merge" when that is at least 2 and "single-frame" when it is 1.
AverageProvenanceAmended ==
    (NightCall /\ ~cap.enableHDR /\ cap.atBuffer # <<>> /\ cap.pc = "done") =>
        /\ cap.path = "average"
        /\ cap.meta.frameCount = Min(cap.frameCount, Len(cap.atBuffer))
        /\ cap.meta.algorithm =
              IF Min(cap.frameCount, Len(cap.atBuffer)) > 1
              THEN "average-merge" ELSE "single-frame"
        /\ ~cap.meta.enabled

\* Requested 8, buffered 3: three frames merged and tagged average-merge.
AverageProvenanceWitness ==
    /\ NightCall /\ ~cap.enableHDR /\ cap.pc = "done"
    /\ cap.frameCount = 8 /\ Len(cap.atBuffer) = 3
    /\ cap.meta.frameCount = 3
    /\ cap.meta.algorithm = "average-merge"

\* C10: the algorithm tag of an output names the path that produced its pixels; in
\* particular an output produced by the scalar accumulate + tone-map fallback is not
\* tagged as produced by the parallel backend. (The tag of a one-frame average merge
\* is the subject of C9.)
ScalarFallbackNotTaggedParallel ==
    (cap.pc = "done" /\ cap.path = "scalar") => cap.meta.algorithm # WebGpuTag

(***************************************************************************)
(* The device negotiator (checked under SpecCamera and SpecOverlap).       *)
(***************************************************************************)
FlowIds == 1..Len(flows)

\* The applyConstraints calls made so far by the upgrade of flow p, as strategies.
Requests(p) == [k \in 1..Len(flows[p].calls) |-> flows[p].strategies[flows[p].calls[k].i]]

InUpgrade(p) == flows[p].pc \in {"upgrade", "returned"} /\ flows[p].calls # << >>

AllRejected(p) ==
    /\ flows[p].pc = "returned"
    /\ flows[p].calls # << >>
    /\ \A k \in 1..Len(flows[p].calls) : flows[p].calls[k].outcome = "rejected"

\* The place of a request in the order of the specification, by what it asks for.
Rank(s) ==
    IF s.aspectRatio # NoAspect THEN 1
    ELSE IF s.frameRateMax = 60 THEN 2
    ELSE IF s.frameRate = 24 /\ s.frameRateMax = 24 THEN 3
    ELSE IF s.frameRate = 15 /\ s.frameRateMax = 15 THEN 4
    ELSE 5

\* C11: the requests of an upgrade are made in the order maximum with aspect ratio,
\* maximum without, maximum at 24 fps, maximum at 15 fps, then the ladder widths
\* in descending order; every request but the last one made was rejected, and
\* after an accepted request the upgrade has returned.
UpgradeRequestsInOrder ==
    \A p \in FlowIds : InUpgrade(p) =>
        LET f == flows[p]
            r == Requests(p)
        IN /\ \A j, k \in 1..Len(r) : j < k =>
                 \/ Rank(r[j]) < Rank(r[k])
                 \/ (Rank(r[j]) = 5 /\ Rank(r[k]) = 5 /\ r[j].width > r[k].width)
           /\ \A k \in 1..Len(r) :
                 /\ Rank(r[k]) <= 4 => (r[k].width = f.caps.maxW /\ r[k].height = f.caps.maxH)
                 /\ Rank(r[k]) = 5 => r[k].width \in {4096, 3840, 2560, 1920, 1280}
           /\ \A k \in 1..Len(r) - 1 : f.calls[k].outcome = "rejected"
           /\ f.calls[Len(r)].outcome = "accepted" => f.pc = "returned"
           /\ f.calls[Len(r)].outcome = "pending" <=> f.pc = "upgrade"

\* An upgrade whose four maximum requests were rejected and whose second ladder
\* request was accepted has returned.
UpgradeAcceptedWitness ==
    \E p \in FlowIds :
        /\ flows[p].pc = "returned"
        /\ Len(flows[p].calls) = 6
        /\ flows[p].calls[6].outcome = "accepted"
        /\ Rank(Requests(p)[1]) = 1
        /\ Rank(Requests(p)[6]) = 5

\* C12: an upgrade makes at most 9 applyConstraints calls (at most one with aspect
\* ratio, one without, two at reduced frame rates, five ladder widths), no strategy
\* is requested twice, and once the last strategy is answered the upgrade returns.
UpgradeBounded ==
    \A p \in FlowIds : InUpgrade(p) =>
        LET f == flows[p]
            r == Requests(p)
            Count(n) == Cardinality({k \in 1..Len(r) : Rank(r[k]) = n})
        IN /\ Len(f.calls) <= 9
           /\ Count(1) <= 1 /\ Count(2) <= 1 /\ Count(3) <= 1 /\ Count(4) <= 1
           /\ Count(5) <= 5
           /\ \A j, k \in 1..Len(f.calls) : j # k => f.calls[j].i # f.calls[k].i
           /\ \A j, k \in 1..Len(r) : j # k => r[j] # r[k]
           /\ (f.pc = "upgrade") => f.calls[Len(f.calls)].outcome = "pending"

\* All nine strategies were requested and rejected, and the upgrade has returned.
UpgradeExhaustedWitness ==
    \E p \in FlowIds : AllRejected(p) /\ Len(flows[p].calls) = 9

\* C13: when the device has rejected every strategy the upgrade reports nothing:
\* the call is not failed, the status is still the Ready that the call set (unless
\* stopCamera or another call has set it since), and the profile cached when the
\* stream was acquired is still the entry of its device (unless a later call has
\* set it, or it went stale); a call that ends without error leaves status Ready.
RejectedUpgradeIsSilent ==
    \A p \in FlowIds :
        LET f == flows[p]
            d == f.track.deviceId
        IN /\ AllRejected(p) =>
                 /\ ~f.error
                 /\ statusBy = p => status = "Ready"
                 /\ (writers[d].flow = p /\ ~(now - f.initialEntry.timestamp > MaxAgeMs)) =>
                        /\ writers[d].by = "initial"
                        /\ cache[d] = f.initialEntry
           /\ (f.pc = "done" /\ ~f.error /\ statusBy = p) => status = "Ready"

\* Six strategies were rejected, nothing has interfered, and the status is Ready
\* with the initial profile in the cache.
RejectedUpgradeWitness ==
    \E p \in FlowIds :
        /\ AllRejected(p)
        /\ Len(flows[p].calls) >= 6
        /\ statusBy = p
        /\ status = "Ready"
        /\ writers[flows[p].track.deviceId].flow = p
        /\ cache[flows[p].track.deviceId] = flows[p].initialEntry
        /\ flows[p].initialEntry # NoEntry

\* C14: between two runs of cleanupStream (a stop, or the restart of the stream) at
\* most one call of attemptUpgrade gets past its guard: a further call in a
\* session whose upgrade was begun makes no request and leaves the cache alone.
UpgradeOncePerSession ==
    /\ ladderRuns <= 1
    /\ recalled # "ran"

\* attemptUpgrade was called again while the upgrade of the session was waiting
\* for the device, and did nothing.
UpgradeRecalledWitness ==
    /\ recalled = "skipped"
    /\ ladderRuns = 1
    /\ \E p \in FlowIds : flows[p].pc = "upgrade" /\ Len(flows[p].calls) >= 2

\* cleanupStream ran in this step: stopCamera, or a call of startCamera whose
\* stream has just been acquired.
CleanupStep ==
    \/ flows' = flows /\ hasStream' = FALSE /\ upgradeAttempted' = FALSE /\ now' = now
    \/ \E p \in FlowIds : flows[p].pc = "acquire" /\ flows'[p].pc = "play"

\* The request of flow p that is waiting for the device.
PendingRequest(p) == flows[p].strategies[flows[p].calls[Len(flows[p].calls)].i]

\* The upgrade of flow p makes a request in this step.
RequestStep(p) ==
    /\ flows'[p].pc = "upgrade"
    /\ flows[p].pc # "upgrade" \/ Len(flows'[p].calls) > Len(flows[p].calls)

\* C15: the aspect-failure counter goes down only to 0 and only when cleanupStream
\* runs, at the end of a session (a stop, or the stream of a fresh session being
\* acquired); every rejected request that carried the aspect ratio adds one to it;
\* and no request made while it stands at 2 or more carries an aspect ratio.
AspectCounterMonotonic ==
    [][ /\ aspectFailures' < aspectFailures => (aspectFailures' = 0 /\ CleanupStep)
        /\ \A p \in FlowIds :
              (/\ flows[p].pc = "upgrade"
               /\ PendingRequest(p).aspectRatio # NoAspect
               /\ flows'[p].calls[Len(flows[p].calls)].outcome = "rejected")
              => aspectFailures' = aspectFailures + 1
        /\ \A p \in FlowIds :
              (RequestStep(p) /\ aspectFailures' >= MaxConsecAspectFailure)
              => flows'[p].strategies[flows'[p].calls[Len(flows'[p].calls)].i].aspectRatio
                   = NoAspect
      ]_vars

\* Two upgrades had their aspect-preserving request rejected since cleanupStream
\* last ran, the counter stands at 2, and the upgrade begun since is waiting for
\* the answer to its first request, which carries no aspect ratio.
AspectCounterWitness ==
    /\ aspectFailures = 2
    /\ \E p \in FlowIds :
          /\ flows[p].pc = "upgrade"
          /\ Len(flows[p].calls) = 1
          /\ ~flows[p].keepAspect
          /\ PendingRequest(p).aspectRatio = NoAspect

NearMaxSkipsUpgrade ==
    \A p \in FlowIds :
        LET f == flows[p]
            d == f.track.deviceId
            w == f.initialEntry.lastApplied.width
            h == f.initialEntry.lastApplied.height
        IN (/\ f.pc \in {"upgrade", "returned"}
            /\ f.caps.has
            /\ Abs(f.caps.maxW - w) <= 16
            /\ Abs(f.caps.maxH - h) <= 16)
           => /\ f.calls = << >>
              /\ f.pc = "returned"
              /\ writers[d].flow = p => (writers[d].by = "initial" /\ cache[d] = f.initialEntry)

\* The upgrade returned without a request on a track 16 pixels below the maxima.
NearMaxWitness ==
    \E p \in FlowIds :
        /\ flows[p].pc = "returned"
        /\ flows[p].calls = << >>
        /\ flows[p].caps.has
        /\ flows[p].caps.maxW - flows[p].track.width = 16
        /\ flows[p].caps.maxH - flows[p].track.height = 16
        /\ cache[flows[p].track.deviceId] = flows[p].initialEntry

(***************************************************************************)
(* The capability cache (checked under SpecCache).                         *)
(***************************************************************************)
\* C18: buildInitialConstraints asks for the cached width and height, for the
\* cached aspect ratio if the profile has one, and for the cached frame rate (30
\* if the profile has none) exactly when the cache holds a profile of the device
\* that is at most maxAge old; without a device id, without a profile or with a
\* stale one it asks for 1920 x 1080, aspect ratio 16:9, 30 fps.
InitialConstraintsFromCache ==
    cacheOp.op = "build" =>
        LET c == cacheOp.constraints
            e == cacheOp.before
            fresh == /\ cacheOp.key # NoDevice
                     /\ e # NoEntry
                     /\ cacheOp.at - e.timestamp <= 600000
        IN IF fresh
           THEN /\ c.width = e.lastApplied.width
                /\ c.height = e.lastApplied.height
                /\ c.aspectRatio = e.lastApplied.aspectRatio
                /\ c.frameRate = IF e.lastApplied.frameRate # 0
                                 THEN e.lastApplied.frameRate ELSE 30
                /\ c.frameRateMax = 0
           ELSE /\ c.width = 1920
                /\ c.height = 1080
                /\ c.aspectRatio = Ratio(16, 9)
                /\ c.frameRate = 30

\* The constraints were built from a profile exactly maxAge old.
InitialConstraintsWitness ==
    /\ cacheOp.op = "build"
    /\ cacheOp.before # NoEntry
    /\ cacheOp.at - cacheOp.before.timestamp = MaxAgeMs
    /\ cacheOp.constraints.width = 3840
    /\ cacheOp.constraints.aspectRatio = NoAspect

\* C19: getCachedProfile(key, maxAge) on a profile set at time T returns the entry
\* when now - T <= maxAge and leaves it in place; when now - T > maxAge it returns
\* nothing and removes the entry, and the key stays absent until it is set again.
StaleLookupEvicts ==
    /\ (cacheOp.op = "get" /\ cacheOp.before # NoEntry) =>
          IF cacheOp.at - cacheOp.before.timestamp <= cacheOp.maxAge
          THEN cacheOp.entry = cacheOp.before /\ cache[cacheOp.key] = cacheOp.before
          ELSE cacheOp.entry = NoEntry /\ cache[cacheOp.key] = NoEntry
    /\ \A k \in evicted :
          /\ cache[k] = NoEntry
          /\ \A maxAge \in MaxAges : GetCachedProfile(cache, k, now, maxAge).entry = NoEntry

\* A lookup at the boundary returned the entry, exactly maxAge old, while the
\* other key, evicted by an earlier lookup, is still absent.
StaleLookupWitness ==
    /\ cacheOp.op = "get"
    /\ cacheOp.before # NoEntry
    /\ cacheOp.maxAge > 0
    /\ cacheOp.at - cacheOp.before.timestamp = cacheOp.maxAge
    /\ cacheOp.entry = cacheOp.before
    /\ evicted # {}

\* C20: clearStaleCaches(maxAge) removes the entries with now - timestamp > maxAge
\* and leaves every other entry as it was, timestamp included.
SweepRemovesOnlyStale ==
    cacheOp.op = "clear" =>
        \A k \in Devices :
            LET e == cacheOp.before[k] IN
            IF e # NoEntry /\ cacheOp.at - e.timestamp > cacheOp.maxAge
            THEN cache[k] = NoEntry
            ELSE cache[k] = e

\* A sweep removed one entry and kept the other, which was exactly maxAge old.
SweepWitness ==
    /\ cacheOp.op = "clear"
    /\ cacheOp.maxAge > 0
    /\ \E k, j \in Devices :
          /\ cacheOp.before[k] # NoEntry
          /\ cache[k] = NoEntry
          /\ cacheOp.before[j] # NoEntry
          /\ cacheOp.at - cacheOp.before[j].timestamp = cacheOp.maxAge
          /\ cache[j] = cacheOp.before[j]

(***************************************************************************)
(* The orientation codec (checked under SpecCodec).                        *)
(*                                                                         *)
(* The metadata segments of an image are its APP1 segments that start with *)
(* the Exif identifier, up to the start of scan; an orientation entry is a *)
(* directory entry of IFD0 with tag 0x0112 whose 12 bytes lie in the       *)
(* segment and in the file.                                                *)
(***************************************************************************)
RECURSIVE MetadataSegments(_, _)
MetadataSegments(bytes, offset) ==
    LET size == 256 * At(bytes, offset + 2) + At(bytes, offset + 3)
    IN  IF offset + 4 > Len(bytes) \/ At(bytes, offset) # 255
           \/ At(bytes, offset + 1) \in {217, 218} \/ size < 2
        THEN <<>>
        ELSE (IF At(bytes, offset + 1) = 225 /\ IsExif(bytes, offset + 4)
              THEN <<[start |-> offset + 4, length |-> size - 2]>> ELSE <<>>)
             \o MetadataSegments(bytes, offset + 2 + size)

SegmentIsLittle(bytes, seg) == At(bytes, seg.start + 6) = 73

\* The offset of the orientation entry of a metadata segment, or -1.
OrientationEntry(bytes, seg) ==
    LET tiff == seg.start + 6
        little == SegmentIsLittle(bytes, seg)
        ordered == At(bytes, tiff) \in {73, 77} /\ At(bytes, tiff + 1) = At(bytes, tiff)
        ifd0 == tiff + Rd32(bytes, little, tiff + 4)
        limit == Min(seg.start + seg.length, Len(bytes))
        hits == {i \in 0..(Min(Rd16(bytes, little, ifd0), Len(bytes) \div 12) - 1) :
                    /\ ifd0 + 2 + 12 * (i + 1) <= limit
                    /\ Rd16(bytes, little, ifd0 + 2 + 12 * i) = 274}
    IN  IF ordered /\ tiff + 8 <= Len(bytes) /\ Rd16(bytes, little, tiff + 2) = 42
           /\ ifd0 >= 0 /\ hits # {}
        THEN ifd0 + 2 + 12 * (CHOOSE i \in hits : \A j \in hits : i <= j)
        ELSE -1

\* The segments of an image that have an orientation entry, in file order.
OrientedSegments(bytes) ==
    SelectSeq(MetadataSegments(bytes, 2), LAMBDA seg : OrientationEntry(bytes, seg) >= 0)

StartsWithSOI(bytes) == At(bytes, 0) = 255 /\ At(bytes, 1) = 216

\* The orientation code of a rotation of 0, 90, 180 or 270 degrees.
CodeOf(deg) == CASE deg = 0 -> 1 [] deg = 90 -> 6 [] deg = 180 -> 3 [] OTHER -> 8

\* The rotations for which (deg + 360) % 360, with the sign of the dividend,
\* is 0, 90, 180 or 270.
Accepted(deg) == deg % 360 = 0 \/ (deg + 360 > 0 /\ deg % 360 \in {90, 180, 270})

\* output is input with one APP1 Exif segment put right after the first two bytes.
Spliced(input, output) ==
    LET size == 256 * At(output, 4) + At(output, 5)
    IN  /\ Len(output) = Len(input) + 2 + size
        /\ At(output, 2) = 255 /\ At(output, 3) = 225 /\ IsExif(output, 6)
        /\ SubSeq(output, 1, 2) = SubSeq(input, 1, 2)
        /\ SubSeq(output, 2 + 2 + size + 1, Len(output)) = SubSeq(input, 3, Len(input))

\* The call at hand was made on an image/jpeg blob of at least four bytes
\* that begins with the start-of-image marker.
StampedJpeg ==
    /\ stampOp.op = "stamp"
    /\ stampOp.input.type = "image/jpeg"
    /\ Len(stampOp.input.bytes) >= 4
    /\ StartsWithSOI(stampOp.input.bytes)

\* C21: after setJpegOrientation(image, R) with R in {0, 90, 180, 270} on an
\* image that begins with the start-of-image marker (here even: an image/jpeg
\* blob of at least four bytes), the first metadata segment of the result has
\* an orientation entry whose value, read in the byte order of that segment,
\* is the code of R.
OrientationRoundTrip ==
    (StampedJpeg /\ stampOp.deg \in {0, 90, 180, 270}) =>
        LET segs == MetadataSegments(blob.bytes, 2)
            e == OrientationEntry(blob.bytes, segs[1])
        IN  /\ segs # <<>>
            /\ e >= 0
            /\ Rd16(blob.bytes, SegmentIsLittle(blob.bytes, segs[1]), e + 8)
                   = CodeOf(stampOp.deg)

InjectionSplicesAnyLength ==
    (/\ stampOp.op = "stamp"
     /\ stampOp.input.type = "image/jpeg"
     /\ StartsWithSOI(stampOp.input.bytes)
     /\ stampOp.deg \in {0, 90, 180, 270}
     /\ stampOp.path # "rewritten") =>
        /\ Spliced(stampOp.input.bytes, blob.bytes)
        /\ MetadataSegments(stampOp.input.bytes, 2) = <<>>
              => Len(MetadataSegments(blob.bytes, 2)) = 1

\* C23, amended: the same for the images of at least four bytes and for every
\* rotation the codec accepts; an image of fewer than four bytes is returned
\* as it was.
InjectionSplices ==
    /\ (StampedJpeg /\ Accepted(stampOp.deg) /\ stampOp.path # "rewritten") =>
          /\ Spliced(stampOp.input.bytes, blob.bytes)
          /\ MetadataSegments(stampOp.input.bytes, 2) = <<>>
                => Len(MetadataSegments(blob.bytes, 2)) = 1
    /\ (stampOp.op = "stamp" /\ Len(stampOp.input.bytes) < 4) => blob = stampOp.input

\* A segment was injected in an image that had no metadata segment, and in
\* one that had one.
InjectionWitness ==
    /\ StampedJpeg
    /\ stampOp.path = "injected"
    /\ MetadataSegments(stampOp.input.bytes, 2) = <<>>
    /\ Len(stampOp.input.bytes) > 8

\* An orientation entry of the input was rewritten: the result has the
\* length of the input, and somewhere a complete entry with the orientation
\* tag, type 3, count 1 and the code, outside of which it is the input.
EntryRewritten(input, output, code) ==
    /\ Len(output) = Len(input)
    /\ \E e \in 0..(Len(output) - 12), little \in BOOLEAN :
          /\ SubSeq(output, e + 1, e + 12) = Entry(little, 274, 3, 1, code)
          /\ \A o \in 0..(Len(input) - 1) :
                At(output, o) # At(input, o) => o \in (e + 2)..(e + 11)

\* C24: for an image that begins with the start-of-image marker (here even:
\* an image/jpeg blob of at least four bytes) and a rotation of 0, 90, 180 or
\* 270 degrees, the result is an image, and when no orientation entry was
\* rewritten the synthesized segment was injected.
MalformedInputIsInjected ==
    (StampedJpeg /\ stampOp.deg \in {0, 90, 180, 270}) =>
        /\ StartsWithSOI(blob.bytes)
        /\ ~EntryRewritten(stampOp.input.bytes, blob.bytes, CodeOf(stampOp.deg))
              => Spliced(stampOp.input.bytes, blob.bytes)

\* C25 as stated: a rotation outside {0, 90, 180, 270} returns the input.
OtherRotationUnchanged ==
    (stampOp.op = "stamp" /\ stampOp.deg \notin {0, 90, 180, 270}) => blob = stampOp.input

\* C25, amended: a rotation that is neither a multiple of 360 nor, above
\* -360, a multiple of 360 plus 90, 180 or 270, returns the input.
UnacceptedRotationUnchanged ==
    (stampOp.op = "stamp" /\ ~Accepted(stampOp.deg)) => blob = stampOp.input

\* -450 degrees were stamped on an image that a quarter turn changes.
UnacceptedRotationWitness ==
    /\ StampedJpeg
    /\ stampOp.deg = -450
    /\ SetJpegOrientation(stampOp.input, 270).path = "injected"
    /\ blob = stampOp.input

(***************************************************************************)
(* Long exposure and the merges (checked under SpecFusion).                *)
(***************************************************************************)
LongExposureDone == fusion.op = "captureLongExposure" /\ fusion.pc = "done"
MergeDone(op) == fusion.op = op /\ fusion.pc = "done" /\ Len(fusion.frames) >= 1
Identical(frames, count) == \A i \in 1..count : frames[i] = frames[1]
\* o is an integer nearest to num / den.
Nearest(o, num, den) == 2 * Abs(o * den - num) <= den
Tie(o, num, den) == 2 * Abs(o * den - num) = den

\* C26 as stated: a finished long exposure of e milliseconds has taken
\* ceil(e / 100) samples, and at least 1 (250 ms gives 3).
LongExposureSamplesCeil ==
    LongExposureDone =>
        Len(fusion.frames) = Max(1, (fusion.exposureMs + 99) \div 100)

\* C26 amended: a finished long exposure of e milliseconds has taken
\* floor(e / 100) samples, and at least 1 (250 ms gives 2, 50 ms gives 1), one
\* every 100 ms from the start; until then it holds fewer.
LongExposureSamplesFloor ==
    /\ LongExposureDone =>
          /\ Len(fusion.frames) = Max(1, fusion.exposureMs \div 100)
          /\ fusion.elapsedMs = 100 * (Len(fusion.frames) - 1)
    /\ (fusion.op = "captureLongExposure" /\ fusion.pc = "sampling") =>
          /\ Len(fusion.frames) < Max(1, fusion.exposureMs \div 100)
          /\ fusion.out = NoPixel

LongExposureWitness ==
    LongExposureDone /\ fusion.exposureMs = 250 /\ Len(fusion.frames) = 2

\* The weighted mean of channel ch with weight 1 / i for the i-th frame
\* (from 1), as numerator and denominator over the common factor n!.
HarmonicNum(frames, ch) ==
    SeqSum([i \in 1..Len(frames) |-> frames[i][ch] * (Factorial(Len(frames)) \div i)])
HarmonicDen(frames) ==
    SeqSum([i \in 1..Len(frames) |-> Factorial(Len(frames)) \div i])
WeightedMergeDone ==
    /\ fusion.op \in {"mergeFramesWithMotionBlur", "captureLongExposure"}
    /\ fusion.pc = "done"
    /\ Len(fusion.frames) >= 1

RoundedTone(v) == CASE v = 0 -> 0 [] v = 128 -> 117 [] v = 255 -> 186
ToneCases == {0, 128, 255}

\* C28: accumulate+tone-map of N >= 1 identical frames whose colour channels
\* all have value V yields round(255 * (l / (1 + l)) ^ (1 / 2.2)) with
\* l = (V / 255) ^ 2.2 in every colour channel, for V in {0, 128, 255}.
IdenticalFramesToneToRounded ==
    \A v \in ToneCases :
        (/\ MergeDone("accumulateAndToneMap")
         /\ Identical(fusion.frames, Len(fusion.frames))
         /\ \A ch \in ColourChannels : fusion.frames[1][ch] = v)
        => \A ch \in ColourChannels : fusion.out[ch] = RoundedTone(v)

\* C29: the average merge outputs in every channel an integer nearest to the
\* sum over the frames divided by their number, a tie going to the even
\* neighbour; identical frames are returned as they are.
AverageMergeIsRoundedMean ==
    MergeDone("mergeFrames") =>
        /\ \A ch \in Channels :
              LET sum == SeqSum(ChannelOf(fusion.frames, ch))
                  n == Len(fusion.frames)
              IN  /\ Nearest(fusion.out[ch], sum, n)
                  /\ Tie(fusion.out[ch], sum, n) => fusion.out[ch] % 2 = 0
        /\ Identical(fusion.frames, Len(fusion.frames)) => fusion.out = fusion.frames[1]

\* Two frames whose first channel sums to 277: the mean 138.5 is stored as 138.
AverageMergeWitness ==
    /\ MergeDone("mergeFrames")
    /\ Len(fusion.frames) = 2
    /\ fusion.frames[1][1] + fusion.frames[2][1] = 277
    /\ fusion.out[1] = 138

(***************************************************************************)
(* The capture settings (checked under SpecMode).                          *)
(***************************************************************************)
\* C30: in every reachable state of the capture settings, mode = photo
\* implies frameCount = 1.
PhotoFrameCountIsOne ==
    captureSettings.mode = "photo" => captureSettings.frameCount = 1

(***************************************************************************)
(* Snapshots, the loop and the frames of a slice (checked under            *)
(* SpecCapture and Spec).                                                  *)
(***************************************************************************)
\* C31: the frames a night capture merges out of the buffer are the slice of
\* the buffer as it was when the capture was made, in its order, whatever the
\* ticks did while the capture was in progress.
MergeConsumesSnapshot ==
    (NightCall /\ cap.pc \in {"encode", "done"} /\ cap.path \in {"average", "scalar"})
        => cap.pixels = SliceNeg(cap.atBuffer, cap.framesToUse)

\* C32: while the loop runs, a run of captureFrame that finds no width or
\* height appends nothing and leaves a run queued; the run after such a skip
\* that pushes a frame pushes the frame of that instant, evicting as ever, and
\* leaves a run queued again.
SkipOnMissingDimensionsRetries ==
    [][/\ lastTick'.kind = "skipNoDims" =>
            /\ isCapturing'
            /\ frameBuffer' = frameBuffer
            /\ clock' = clock
            /\ pendingTicks' >= 1
       /\ (lastTick.kind = "skipNoDims" /\ lastTick'.kind = "append") =>
            /\ pendingTicks >= 1
            /\ frameBuffer' = Push(frameBuffer, TickFrame(clock + 1))
            /\ pendingTicks' >= 1]_vars

\* The loop has pushed frames, then skipped for want of dimensions, and runs on.
SkipOnMissingDimensionsWitness ==
    /\ isCapturing
    /\ lastTick.kind = "skipNoDims"
    /\ Len(frameBuffer) >= 2
    /\ pendingTicks >= 1

(***************************************************************************)
(* The strategies of an upgrade (checked under SpecUpgrade).               *)
(***************************************************************************)
LadderOf(f) == LET IsLadder(s) == s.label = "ladder" IN SelectSeq(f.strategies, IsLadder)
MaxStrategiesOf(f) == {f.strategies[i] : i \in {k \in 1..Len(f.strategies) :
                                                   f.strategies[k].label # "ladder"}}
AttemptedOf(f) == [a \in 1..Len(f.calls) |-> f.strategies[f.calls[a].i]]
\* h is w / (n / d) rounded to the nearest integer, a half rounded up.
RoundedQuotient(h, w, ratio) ==
    /\ 2 * h * ratio.n - ratio.n <= 2 * w * ratio.d
    /\ 2 * w * ratio.d < 2 * h * ratio.n + ratio.n

\* C33: the ladder requests of an upgrade have widths of the ladder, strictly
\* descending in the order in which they are attempted, none above the maximum
\* width of the capabilities, none the width of the max-resolution requests,
\* and the height round(width / baseAspect).
LadderDescendsBelowMaximum ==
    \A p \in 1..Len(flows) :
        LET f == flows[p]
            ladder == LadderOf(f)
            tried == AttemptedOf(f)
        IN  /\ \A i \in 1..Len(ladder) :
                  /\ ladder[i].width \in {4096, 3840, 2560, 1920, 1280}
                  /\ f.caps.maxW # 0 => ladder[i].width <= f.caps.maxW
                  /\ \A s \in MaxStrategiesOf(f) : ladder[i].width # s.width
                  /\ RoundedQuotient(ladder[i].height, ladder[i].width, f.baseAspect)
            /\ \A i, j \in 1..Len(ladder) : i < j => ladder[i].width > ladder[j].width
            /\ \A a, b \in 1..Len(tried) :
                  (a < b /\ tried[a].label = "ladder") =>
                      /\ tried[b].label = "ladder"
                      /\ tried[a].width > tried[b].width

\* The maximum width is a rung: the ladder leaves it out and a lower rung is
\* being attempted after the one below the maximum was refused.
LadderWitness ==
    \E p \in 1..Len(flows) :
        LET f == flows[p] IN
        /\ f.pc = "upgrade"
        /\ f.caps.maxW = 3840
        /\ Len(LadderOf(f)) = 3
        /\ f.strategies[f.idx].label = "ladder"
        /\ f.strategies[f.idx].width = 1920

\* w is h * (n / d) rounded to the nearest integer, a half rounded up.
RoundedProduct(w, h, ratio) ==
    /\ 2 * w * ratio.d - ratio.d <= 2 * h * ratio.n
    /\ 2 * h * ratio.n < 2 * w * ratio.d + ratio.d

\* C34: the width and height of the aspect-preserving maximum request do not
\* exceed the maxima of the capabilities and keep the base aspect ratio: one
\* of them is the other one taken through the ratio and rounded.
MaxWithAspectKeepsRatio ==
    \A p \in 1..Len(flows) :
        LET f == flows[p] IN
        \A s \in MaxStrategiesOf(f) :
            s.label = "max-with-aspect" =>
                /\ f.caps.maxW # 0 => s.width <= f.caps.maxW
                /\ f.caps.maxH # 0 => s.height <= f.caps.maxH
                /\ \/ RoundedQuotient(s.height, s.width, f.baseAspect)
                   \/ RoundedProduct(s.width, s.height, f.baseAspect)

(***************************************************************************)
(* The loops of the ring buffer (checked under Spec).                      *)
(***************************************************************************)
\* C35: at any time at most one run of captureFrame is queued, whatever
\* startFrameBuffer and stopFrameBuffer calls were made.
AtMostOneLoopScheduled == pendingTicks <= 1

(***************************************************************************)
(* The sizes of buffered frames (checked under SpecSource).                *)
(***************************************************************************)
\* The size of the source the frame of instant t was drawn from.
RECURSIVE SizeBefore(_, _)
SizeBefore(log, t) ==
    IF log = << >> THEN NoSize
    ELSE IF log[Len(log)].at < t THEN log[Len(log)].size
    ELSE SizeBefore(SubSeq(log, 1, Len(log) - 1), t)
FrameSize(f) == SizeBefore(video.log, f.t)

RECURSIVE WalkEnd(_, _)
WalkEnd(bytes, offset) ==
    LET size == 256 * At(bytes, offset + 2) + At(bytes, offset + 3)
    IN  IF offset + 4 >= Len(bytes) \/ At(bytes, offset) # 255
           \/ At(bytes, offset + 1) \in {217, 218} \/ size < 2
        THEN offset
        ELSE WalkEnd(bytes, offset + 2 + size)

\* The offsets at which output differs from input.
Changed(input, output) ==
    {o \in 0..(Len(input) - 1) : At(output, o) # At(input, o)}

\* C37: a rewrite in place alters bytes only inside the payload of one
\* metadata segment of the input, and none at or after the start-of-scan
\* marker.
RewriteStaysInSegment ==
    (stampOp.op = "stamp" /\ stampOp.path = "rewritten") =>
        LET input == stampOp.input.bytes
            segs == MetadataSegments(input, 2)
        IN  /\ \E k \in 1..Len(segs) : \A o \in Changed(input, blob.bytes) :
                  o \in segs[k].start..(segs[k].start + segs[k].length - 1)
            /\ \A o \in Changed(input, blob.bytes) : o < WalkEnd(input, 2)

(***************************************************************************)
(* Stamping twice.                                                         *)
(***************************************************************************)
\* The blob at hand is the result of stamping an accepted rotation on an
\* image/jpeg blob that begins with the start-of-image marker.
AlreadyStamped == StampedJpeg /\ Accepted(stampOp.deg)

\* The step is a further call of setJpegOrientation.
StampedAgain == stampOp'.op = "stamp" /\ stampOp'.calls = stampOp.calls + 1

\* C38: stamping an already stamped image with the same rotation returns it
\* byte for byte, and stamping it with any accepted rotation leaves its
\* length and its number of metadata segments as they were.
StampIsIdempotent ==
    [][(AlreadyStamped /\ StampedAgain /\ Accepted(stampOp'.deg)) =>
          /\ stampOp'.deg = stampOp.deg => blob' = blob
          /\ Len(blob'.bytes) = Len(blob.bytes)
          /\ Len(MetadataSegments(blob'.bytes, 2)) = Len(MetadataSegments(blob.bytes, 2))]_vars

\* The part of C38 about the length and the segments alone.
RestampKeepsLengthAndSegments ==
    [][(AlreadyStamped /\ StampedAgain /\ Accepted(stampOp'.deg)) =>
          /\ Len(blob'.bytes) = Len(blob.bytes)
          /\ Len(MetadataSegments(blob'.bytes, 2)) = Len(MetadataSegments(blob.bytes, 2))]_vars

(***************************************************************************)
(* The streams left running.                                               *)
(***************************************************************************)
\* C39: once no call of startCamera is in flight, every stream acquired
\* other than the one recorded in the state has had its tracks stopped.
SettledStreamsAreStopped ==
    streams.pending = << >> => streams.live \subseteq {streams.current}

(***************************************************************************)
(* The rotation of the tone-map pass.                                      *)
(***************************************************************************)
\* C40: in the tone-map pass, for each rotation, the output grid is the
\* source grid with its axes swapped for 90 and 270 degrees, every output
\* texel is stored to, and every source texel is sampled by exactly one
\* output texel.
ToneMapIsBijection ==
    tonePass.pc = "done" =>
        LET t == tonePass
            out == Grid(t.outW, t.outH)
            src == Grid(t.w, t.h)
        IN  /\ <<t.outW, t.outH>> = IF t.rotQuarter \in {1, 3} THEN <<t.h, t.w>>
                                                              ELSE <<t.w, t.h>>
            /\ DOMAIN t.sampled = out
            /\ \A p \in out : t.sampled[p] \in src
            /\ \A s \in src : Cardinality({p \in out : t.sampled[p] = s}) = 1

\* A quarter turn of a video that is wider than high and spans two
\* workgroups, whose first output row comes from the first source column.
ToneMapWitness ==
    /\ tonePass.pc = "done"
    /\ tonePass.rotQuarter = 1
    /\ tonePass.w > WorkgroupSize
    /\ tonePass.h = 2
    /\ tonePass.sampled[<<0, 0>>] = <<0, 1>>
    /\ tonePass.sampled[<<1, 0>>] = <<0, 0>>

====
